---- MODULE Spec2Model ----
(***************************************************************************)
(* A model of LoggerBase (src/src/LoggerBase.cpp): the sensor fan-out       *)
(* (setupSensors, updateAllSensors), the logging tick (log) and the sleep   *)
(* sequence (systemSleep) together with the RTC alarm and the processor's   *)
(* interrupt logic it relies on.                                            *)
(*                                                                          *)
(* Three specifications share the variables:                                *)
(*   SpecSetup   one call of setupSensors on an arbitrary sensor list       *)
(*   SpecUpdate  one call of updateAllSensors on an arbitrary sensor list   *)
(*   Spec        setup() followed by repeated log() calls, with the RTC     *)
(*               running and its alarm interrupting the processor           *)
(* Sensor-list indices are 1-based here (the code's index i is i+1 here).   *)
(***************************************************************************)
EXTENDS Integers, Sequences, FiniteSets, TLC

VARIABLES
    \* ---- the sensor list and one call of setupSensors -------------------
    sensorList,      \* _sensorList: sequence of [name, loc] handles
    sensorValues,    \* per handle: what its getValue() returns
    okAt,            \* per handle: the attempt on which its setup() first returns true
    spc,             \* position inside setupSensors
    si,              \* the loop index i of setupSensors
    setupTries,      \* local setupTries
    sensorSuccess,   \* local sensorSuccess
    success,         \* local success (the return value once spc = "done")
    ssOwner,         \* history: handle whose setup() last assigned sensorSuccess (0: the initialiser)
    setupResults,    \* history: per handle, the results of the setup() calls made on it
    anded,           \* history: per handle, <<value, owner>> folded into success at line 126
    \* ---- one call of updateAllSensors -----------------------------------
    upc,             \* position inside updateAllSensors
    ui,              \* the loop index i of updateAllSensors
    usuccess,        \* local success of updateAllSensors
    updateResults,   \* history: per handle, the results of the update() calls made on it
    csv,             \* the line generateSensorDataCSV returned (<<>>: not called yet)
    fpc,             \* sensorsSleep / sensorsWake: which of the two is running
    fi,              \* the loop index i of the running one (1-based)
    fsuccess,        \* the local 'success' of the running one
    fcalls,          \* history: the sleep() and wake() calls made, in order
    sleepReturned,   \* <<b>> once sensorsSleep has returned b
    wakeReturned,    \* <<b>> once sensorsWake has returned b
    \* ---- the clock ------------------------------------------------------
    rtcEpoch,        \* the RTC's epoch, rtc.now().getEpoch()
    elapsed,         \* seconds the RTC has advanced since the start of the run
    timeZone,        \* _timeZone
    currentepochtime,\* the cached epoch, LoggerBase::currentepochtime
    currentTime,     \* the cached timestamp, LoggerBase::currentTime (the epoch it encodes, -1: "")
    rtcRead,         \* history: the RTC epoch the most recent getNow() read (-1: none yet)
    dateTimeStr,     \* the String getDateTime_ISO8601() last returned (<<>>: none yet)
    \* ---- SenseairK30::addSingleMeasurementResult -------------------------
    kpc,             \* position inside addSingleMeasurementResult
    available,       \* _stream->available(): bytes waiting in the stream's buffer
    timeout,         \* the local timeout
    rangeAttempts,   \* the local rangeAttempts
    ksuccess,        \* the local success
    result,          \* the local result
    packet,          \* packet[3] and packet[4] of the reply that was read
    writes,          \* history: read commands written to the stream (saturating)
    verified,        \* history: the values handed to verifyAndAddMeasurementResult
    kreturned,       \* <<b>> once addSingleMeasurementResult has returned b
    \* ---- MeterAtmos14::getResults and MeterAtmos22::getResults -----------
    apc,             \* position inside getResults
    amodel,          \* the driver whose getResults runs: "Atmos14" or "Atmos22"
    areadings,       \* the four floats of the reply, in the order they are parsed
    acalls,          \* history: the calls of verifyAndAddMeasurementResult, in order
    areturned,       \* <<b>> once getResults has returned b
    \* ---- DigiXBeeWifi::getNISTTime ---------------------------------------
    npc,             \* position inside getNISTTime ("idle": not running)
    ni,              \* the loop's i
    nmillis,         \* millis()
    lastNISTrequest, \* _lastNISTrequest
    connectionMade,  \* the local connectionMade
    nLastConnect,    \* history: millis() at the most recent gsmClient.connect (-1: none)
    nPrevConnect,    \* history: millis() at the connect before that (-1: none)
    nAttempts,       \* history: connects made by the current call
    nGotBytes,       \* history: an attempt of the current call received 4 bytes
    nInternet,       \* history: isInternetAvailable() of the current call
    nreturned,       \* <<"zero">> or <<"parsed">> once getNISTTime has returned
    ncalls,          \* history: calls of getNISTTime so far
    \* ---- DigiXBeeWifi::extraModemSetup -----------------------------------
    xpc,             \* position inside extraModemSetup
    xsuccess,        \* the local success
    xstep,           \* the configuration command that is next
    xEarlyFail,      \* history: the first of init, PR, D8, D9, IP, SM, SO that failed ("none")
    xmillis,         \* millis() - start of the AI polling loop
    xPollStart,      \* history: millis() - start when the most recent AI poll was sent (-1)
    regCount,        \* the local reg_count
    apRegistered,    \* the local apRegistered
    xpolls,          \* history: the statuses of the most recent AI polls, at most four
    mdmLp,           \* the local mdm_lp of the IP and DNS loops
    xreset,          \* history: modemHardReset() was called
    xreturned,       \* <<b>> once extraModemSetup has returned b
    \* ---- DigiXBeeWifi::setWiFiId / setWiFiPwd -----------------------------
    wbufCap,         \* the chars allocated for _ssid_buf and _pwd_buf, 0 for NULL
    wptr,            \* what _ssid and _pwd point to: "caller" or "buffer"
    wlast,           \* history: the most recent strcpy: its buffer, bytes written, capacity
    wcalls,          \* history: calls so far
    wpc,             \* "ready", or "crashed" after a write past a buffer's end
    \* ---- the logger -----------------------------------------------------
    interruptPin,    \* setup()'s interruptPin (-1: none)
    periodicity,     \* setup()'s alarm periodicity
    loggingIntervalMinutes, \* log()'s loggingIntervalMinutes
    sleep,           \* LoggerBase::sleep
    timerPeriod,     \* the period setup() arms the timer with
    pc,              \* position of the main program
    spos,            \* inside systemSleep: index of the next step of SleepSequence
    ops,             \* history: the operations of the current log() call, in order
    testedEpoch,     \* history: the cached epoch the alignment test of this log() call read
    ticks,           \* history: number of log() calls started, counted up to MaxTicks
    sensorsAwake,    \* the sensors have been woken since they were last put to sleep
    setupOps,        \* history: the steps setup() has performed, in order
    \* ---- the log file ---------------------------------------------------
    fileName,        \* LoggerBase::_fileName
    appended,        \* history: the lines the current log() call appended, and to which file
    files,           \* the SD card: the lines of every file that exists, by file name
    created,         \* history: the last setupLogFile call found no file and wrote the header
    sdOK,            \* SD.begin(_SDCardPin) succeeds: the card is there and initialises
    \* ---- RTC alarm and processor ----------------------------------------
    alarmEnabled,    \* rtc.enableInterrupts() was called
    rtcFlag,         \* the RTC's latched interrupt flag (its alarm pin is held low while set)
    intPending,      \* the processor's pin-change interrupt flag
    intEnabled,      \* the processor's global interrupt enable
    seiShadow,       \* the instruction after interrupts() has not executed yet
    sleepEnableBit,  \* the SE bit
    adcEnabled       \* ADCSRA's ADEN bit

setupVars  == <<spc, si, setupTries, sensorSuccess, success, ssOwner, setupResults, anded, okAt>>
updateVars == <<upc, ui, usuccess, updateResults, csv>>
clockVars  == <<rtcEpoch, elapsed, timeZone, currentepochtime, currentTime>>
configVars == <<interruptPin, periodicity, loggingIntervalMinutes>>
loggerVars == <<sleep, timerPeriod, pc, spos, ops, testedEpoch, ticks, sensorsAwake, setupOps>>
hwVars     == <<alarmEnabled, rtcFlag, intPending, intEnabled, seiShadow, sleepEnableBit, adcEnabled>>
fanVars    == <<fpc, fi, fsuccess, fcalls, sleepReturned, wakeReturned>>
sinkVars   == <<fileName, appended, files, created, sdOK>>
timeVars   == <<rtcRead, dateTimeStr>>
k30Vars    == <<kpc, available, timeout, rangeAttempts, ksuccess, result, packet, writes, verified, kreturned>>
atmosVars  == <<apc, amodel, areadings, acalls, areturned>>
nistVars   == <<npc, ni, nmillis, lastNISTrequest, connectionMade, nLastConnect, nPrevConnect,
                nAttempts, nGotBytes, nInternet, nreturned, ncalls>>
xbeeVars   == <<xpc, xsuccess, xstep, xEarlyFail, xmillis, xPollStart, regCount, apRegistered,
                xpolls, mdmLp, xreset, xreturned>>
wifiVars   == <<wbufCap, wptr, wlast, wcalls, wpc>>
driverVars == <<atmosVars, nistVars, xbeeVars, wifiVars>>
vars == <<sensorList, sensorValues, fanVars, setupVars, updateVars, clockVars, configVars, loggerVars, hwVars, sinkVars,
         timeVars, k30Vars, driverVars>>
\* what the steps of setupSensors, of updateAllSensors and of the logger leave alone
notSetup  == <<sensorList, sensorValues, fanVars, updateVars, clockVars, configVars, loggerVars, hwVars, sinkVars, timeVars, k30Vars, driverVars>>
notUpdate == <<sensorList, fanVars, setupVars, configVars, loggerVars, hwVars, sinkVars, timeVars, k30Vars, driverVars>>
notLogger == <<sensorList, sensorValues, fanVars, setupVars, updateVars, timeVars, k30Vars, driverVars>>
notFanout == <<sensorList, sensorValues, setupVars, updateVars, clockVars, configVars, loggerVars, hwVars, sinkVars, timeVars, k30Vars, driverVars>>

(***************************************************************************)
(* Bounds of the model                                                      *)
(***************************************************************************)
MaxSensors == 3
\* the run starts at most StartWindow seconds before EpochBase ...
StartWindow == 3
\* ... and the RTC advances by at most MaxElapsed seconds
MaxElapsed == 4
\* log() calls are counted up to MaxTicks
MaxTicks == 3
\* logging intervals 1..MaxInterval minutes
MaxFileTicks == 2
MaxInterval == 2
\* read commands written to the K30's stream are counted up to MaxWrites
MaxWrites == 2
\* the stream's receive buffer holds at most MaxAvailable bytes
MaxAvailable == 8
\* getNISTTime is called at most MaxNistCalls times
MaxNistCalls == 2

(***************************************************************************)
(* Sensor handles: identity is the pair (name, location)                    *)
(***************************************************************************)
SensorNames     == {"SensorA", "SensorB"}
SensorLocations == {"pin3", "pin5"}
Handles         == [name : SensorNames, loc : SensorLocations]
SensorLists     == UNION {[1..n -> Handles] : n \in 0..MaxSensors}

\* init(): the logger ID and the sampling feature
LoggerID        == "TestLogger"
SamplingFeature == "feature1"

\* the sentinel of a handle that has no valid reading, and the values
\* getValue() returns in the model: the sentinel or a reading
NoReading == -9999
Readings  == {17}
Values    == {NoReading} \cup Readings

\* the "Make 5 attempts before giving up" limit of the while loop
SetupTriesLimit == 5

\* The comparison of the dedup scans: same name AND same location.
SameSensor(a, b) == a.name = b.name /\ a.loc = b.loc

(***************************************************************************)
(* setupSensors                                                             *)
(***************************************************************************)
\* The inner for loop of setupSensors: j starts at i+1; while handle j equals
\* handle i, i is incremented (and j with it); the value of i on exit.
RECURSIVE SetupSkipIdentical(_, _, _)
SetupSkipOne(list, i, j) ==
    IF j <= Len(list) /\ SameSensor(list[i], list[j]) THEN i + 1 ELSE i
SetupSkipIdentical(list, i, j) ==
    IF j <= Len(list) /\ SameSensor(list[i], list[j])
    THEN SetupSkipIdentical(list, i + 1, j + 1)
    ELSE i

\* The guard of the while loop.
SetupMayTrySix(tries) == tries < SetupTriesLimit + 1
SetupMayTry(tries) == tries < SetupTriesLimit

\* _sensorList[i]->setup(): the handle's n-th call succeeds from attempt okAt[i] on.
SensorSetup(i) == Len(setupResults[i]) + 1 >= okAt[i]

SetupInit ==
    /\ spc = "for"
    /\ si = 1
    /\ setupTries = 0
    /\ sensorSuccess = FALSE
    /\ success = TRUE
    /\ ssOwner = 0
    /\ setupResults = [k \in 1..Len(sensorList) |-> <<>>]
    /\ anded = [k \in 1..Len(sensorList) |-> <<>>]

\* for (int i = 0; i < _sensorCount; i++): the loop test
SetupForTest ==
    /\ UNCHANGED notSetup
    /\ spc = "for"
    /\ spc' = IF si <= Len(sensorList) THEN "while" ELSE "done"
    /\ UNCHANGED <<si, setupTries, sensorSuccess, success, ssOwner, setupResults, anded, okAt>>

\* one iteration of while (setupTries < 5): call setup(), break on success,
\* count the failure otherwise
SetupAttempt ==
    /\ UNCHANGED notSetup
    /\ spc = "while"
    /\ SetupMayTry(setupTries)
    /\ LET r == SensorSetup(si) IN
        /\ sensorSuccess' = r
        /\ ssOwner' = si
        /\ setupResults' = [setupResults EXCEPT ![si] = Append(@, r)]
        /\ setupTries' = IF r THEN setupTries ELSE setupTries + 1
        /\ spc' = IF r THEN "after" ELSE "while"
    /\ UNCHANGED <<si, success, anded, okAt>>

\* the while loop's guard is false: fall through
SetupWhileExit ==
    /\ UNCHANGED notSetup
    /\ spc = "while"
    /\ ~SetupMayTry(setupTries)
    /\ spc' = "after"
    /\ UNCHANGED <<si, setupTries, sensorSuccess, success, ssOwner, setupResults, anded, okAt>>

\* success &= sensorSuccess; the dedup scan; the for loop's i++
SetupAccumulate ==
    /\ UNCHANGED notSetup
    /\ spc = "after"
    /\ success' = (success /\ sensorSuccess)
    /\ anded' = [anded EXCEPT ![si] = <<sensorSuccess, ssOwner>>]
    /\ si' = SetupSkipIdentical(sensorList, si, si + 1) + 1
    /\ spc' = "for"
    /\ UNCHANGED <<setupTries, sensorSuccess, ssOwner, setupResults, okAt>>

(***************************************************************************)
(* The clock                                                                *)
(***************************************************************************)
\* The epochs of the model lie around EpochBase, a day after the epoch's
\* origin: a multiple of every logging interval and of every alarm period.
EpochBase == 24 * 3600
TimeZones == {-5, 0}

\* getNow(): the RTC's epoch plus _timeZone*3600 (a 32-bit long; the values
\* of the model are far from its limits).
GetNow(rtc, tz) == rtc + tz * 3600

\* _timeZone is an int and 3600 an int literal: on the AVR this file builds
\* for (<avr/sleep.h>) an int has 16 bits, so the product is formed in 16
\* bits before it is added to the long. It fits for |_timeZone| <= 9; beyond
\* that the signed multiplication overflows, which the language leaves
\* undefined: the build either keeps the exact product or wraps it.
Int16(x) == ((x + 32768) % 65536) - 32768
TimeZoneOffsets(tz) == {tz * 3600, Int16(tz * 3600)}

\* getNow() with every outcome of the offset's multiplication
GetNowOutcomes(rtc, tz) == {rtc + off : off \in TimeZoneOffsets(tz)}

\* ---- Strings: sequences of one-character strings -----------------------
DigitChars == <<"0", "1", "2", "3", "4", "5", "6", "7", "8", "9">>

RECURSIVE Digits(_)
Digits(n) == IF n < 10 THEN <<DigitChars[n + 1]>>
             ELSE Digits(n \div 10) \o <<DigitChars[(n % 10) + 1]>>

\* String(int): a '-' for a negative value, then the decimal digits
StringOfIntUnsigned(n) == IF n < 0 THEN Digits(-n) ELSE Digits(n)
StringOfInt(n) == IF n < 0 THEN <<"-">> \o Digits(-n) ELSE Digits(n)

\* String::substring(from, to): the characters from..to-1, counted from 0,
\* with to clipped to the length
Substring(str, from, to) ==
    LET last == IF to > Len(str) THEN Len(str) ELSE to
    IN  IF from >= last THEN <<>> ELSE SubSeq(str, from + 1, last)

ColonZeroZero == <<":", "0", "0">>

\* the tzString of getDateTime_ISO8601, branch by branch
TzStringUnpadded(tz) ==
    LET tzString == StringOfInt(tz)
    IN  IF -24 <= tz /\ tz <= -10 THEN tzString \o ColonZeroZero
        ELSE IF -10 < tz /\ tz < 0 THEN tzString \o ColonZeroZero
        ELSE IF tz = 0 THEN <<"Z">>
        ELSE IF 0 < tz /\ tz <= 24 THEN <<"+">> \o tzString \o ColonZeroZero
        ELSE tzString
TzString(tz) ==
    LET tzString == StringOfInt(tz)
    IN  IF -24 <= tz /\ tz <= -10 THEN tzString \o ColonZeroZero
        ELSE IF -10 < tz /\ tz < 0
             THEN Substring(tzString, 0, 1) \o <<"0">> \o Substring(tzString, 1, 2)
                  \o ColonZeroZero
        ELSE IF tz = 0 THEN <<"Z">>
        ELSE IF 0 < tz /\ tz < 10 THEN <<"+", "0">> \o tzString \o ColonZeroZero
        ELSE IF 10 <= tz /\ tz <= 24 THEN <<"+">> \o tzString \o ColonZeroZero
        ELSE tzString

\* The String getDateTime_ISO8601 returns: the date and time of the local
\* epoch getNow() returned (dt, kept as that epoch) followed by tzString.
NoDateTimeStr == [dt |-> -1, tz |-> <<>>]
DateTimeStr(localEpoch, tz) == [dt |-> localEpoch, tz |-> TzString(tz)]

\* getNow(), called on its own or as the whole body of checkTime(ts)
TimeGetNow ==
    /\ \E now \in GetNowOutcomes(rtcEpoch, timeZone) : currentepochtime' = now
    /\ rtcRead' = rtcEpoch
    /\ UNCHANGED <<rtcEpoch, elapsed, timeZone, currentTime, dateTimeStr>>
    /\ UNCHANGED <<sensorList, sensorValues, fanVars, setupVars, updateVars, configVars,
                   loggerVars, hwVars, sinkVars, k30Vars, driverVars>>

\* getDateTime_ISO8601(): getNow(), then the string is built
TimeGetDateTime ==
    /\ \E now \in GetNowOutcomes(rtcEpoch, timeZone) :
            /\ currentepochtime' = now
            /\ dateTimeStr' = DateTimeStr(now, timeZone)
    /\ rtcRead' = rtcEpoch
    /\ UNCHANGED <<rtcEpoch, elapsed, timeZone, currentTime>>
    /\ UNCHANGED <<sensorList, sensorValues, fanVars, setupVars, updateVars, configVars,
                   loggerVars, hwVars, sinkVars, k30Vars, driverVars>>

ClockInit ==
    /\ rtcEpoch \in (EpochBase - StartWindow)..EpochBase
    /\ elapsed = 0
    /\ timeZone \in TimeZones
    /\ currentepochtime = 0
    /\ currentTime = -1

(***************************************************************************)
(* updateAllSensors                                                         *)
(***************************************************************************)
\* The inner for loop of updateAllSensors (the same scan as setupSensors').
RECURSIVE UpdateSkipIdentical(_, _, _)
UpdateSkipOne(list, i, j) ==
    IF j <= Len(list) /\ SameSensor(list[i], list[j]) THEN i + 1 ELSE i
UpdateSkipIdentical(list, i, j) ==
    IF j <= Len(list) /\ SameSensor(list[i], list[j])
    THEN UpdateSkipIdentical(list, i + 1, j + 1)
    ELSE i

UpdateInit ==
    /\ upc = "entry"
    /\ ui = 1
    /\ usuccess = TRUE
    /\ updateResults = [k \in 1..Len(sensorList) |-> <<>>]
    /\ csv = <<>>

\* getDateTime_ISO8601().toCharArray(currentTime, 26): reads the clock
\* through getNow() and caches the timestamp
UpdateEntry ==
    /\ UNCHANGED notUpdate
    /\ upc = "entry"
    /\ currentepochtime' = GetNow(rtcEpoch, timeZone)
    /\ currentTime' = GetNow(rtcEpoch, timeZone)
    /\ upc' = "for"
    /\ UNCHANGED <<ui, usuccess, updateResults, csv, sensorValues, rtcEpoch, elapsed, timeZone>>

\* for (uint8_t i = 0; i < _sensorCount; i++): the loop test
UpdateForTest ==
    /\ UNCHANGED notUpdate
    /\ upc = "for"
    /\ upc' = IF ui <= Len(sensorList) THEN "body" ELSE "done"
    /\ UNCHANGED <<ui, usuccess, updateResults, csv, sensorValues, clockVars>>

\* success &= <the result of update()>
UpdateFoldLast(acc, r) == r
UpdateFold(acc, r) == acc /\ r

\* success &= _sensorList[i]->update(); the dedup scan; the for loop's i++.
\* update() measures: it may take a second of the RTC, and leaves the handle
\* with a value of its own choosing.
UpdateSensor ==
    /\ UNCHANGED notUpdate
    /\ upc = "body"
    /\ \E r \in BOOLEAN :
        /\ usuccess' = UpdateFold(usuccess, r)
        /\ updateResults' = [updateResults EXCEPT ![ui] = Append(@, r)]
        /\ \E v \in Values :
            sensorValues' = [sensorValues EXCEPT ![ui] = v]
    /\ \E d \in {0, 1} :
        /\ elapsed + d <= MaxElapsed
        /\ rtcEpoch' = rtcEpoch + d
        /\ elapsed' = elapsed + d
    /\ ui' = UpdateSkipIdentical(sensorList, ui, ui + 1) + 1
    /\ upc' = "for"
    /\ UNCHANGED <<csv, timeZone, currentepochtime, currentTime>>

(***************************************************************************)
(* generateSensorDataCSV                                                    *)
(* A line is a sequence of tokens: the timestamp, values and separators.    *)
(***************************************************************************)
Sep == [sep |-> ", "]
TimestampField(t) == [ts |-> t]
ValueField(v) == [val |-> v]

\* the for loop of generateSensorDataCSV: each value, and ", " unless it is
\* the last
RECURSIVE CSVLoop(_, _, _)
CSVLoop(line, values, i) ==
    IF i > Len(values)
    THEN line
    ELSE CSVLoop((line \o <<ValueField(values[i])>>)
                     \o (IF i # Len(values) THEN <<Sep>> ELSE <<>>),
                 values, i + 1)

RECURSIVE CSVLoopTrailing(_, _, _)
CSVLoopTrailing(line, values, i) ==
    IF i > Len(values)
    THEN line
    ELSE CSVLoopTrailing((line \o <<ValueField(values[i])>>) \o <<Sep>>, values, i + 1)

\* String(currentTime): the timestamp generateSensorDataCSV starts the line with
CSVTimestampFresh == GetNow(rtcEpoch, timeZone)
CSVTimestamp == currentTime

GenerateSensorDataCSVTrailing(t, values) == CSVLoopTrailing(<<TimestampField(t), Sep>>, values, 1)
GenerateSensorDataCSV(t, values) == CSVLoop(<<TimestampField(t), Sep>>, values, 1)

\* generateSensorDataCSV(), called after updateAllSensors has returned
UpdateGenerateCSV ==
    /\ UNCHANGED notUpdate
    /\ upc = "done"
    /\ csv' = GenerateSensorDataCSV(CSVTimestamp, sensorValues)
    /\ upc' = "generated"
    /\ UNCHANGED <<ui, usuccess, updateResults, sensorValues, clockVars>>

(***************************************************************************)
(* sensorsSleep and sensorsWake                                             *)
(***************************************************************************)
\* success &= <the result of sleep() or wake()>
FanFoldLast(acc, r) == r
FanFold(acc, r) == acc /\ r

\* for (int i = 0; i < _sensorCount; i++): the i++; the two loops have no
\* scan for identical handles
FanNextSkipIdentical(list, i) == UpdateSkipIdentical(list, i, i + 1) + 1
FanNext(list, i) == i + 1

FanoutInit ==
    /\ fpc = "sleep"
    /\ fi = 1
    /\ fsuccess = TRUE
    /\ fcalls = <<>>
    /\ sleepReturned = <<>>
    /\ wakeReturned = <<>>

\* success &= _sensorList[i]->sleep(), or ->wake()
FanoutCall ==
    /\ UNCHANGED notFanout
    /\ fpc \in {"sleep", "wake"}
    /\ fi <= Len(sensorList)
    /\ \E r \in BOOLEAN :
        /\ fsuccess' = FanFold(fsuccess, r)
        /\ fcalls' = Append(fcalls, [op |-> fpc, i |-> fi, r |-> r])
    /\ fi' = FanNext(sensorList, fi)
    /\ UNCHANGED <<fpc, sleepReturned, wakeReturned>>

\* return success, of sensorsSleep; sensorsWake is called next
FanoutSleepReturn ==
    /\ UNCHANGED notFanout
    /\ fpc = "sleep"
    /\ fi > Len(sensorList)
    /\ sleepReturned' = <<fsuccess>>
    /\ fpc' = "wake"
    /\ fi' = 1
    /\ fsuccess' = TRUE
    /\ UNCHANGED <<fcalls, wakeReturned>>

\* return success, of sensorsWake
FanoutWakeReturn ==
    /\ UNCHANGED notFanout
    /\ fpc = "wake"
    /\ fi > Len(sensorList)
    /\ wakeReturned' = <<fsuccess>>
    /\ fpc' = "done"
    /\ UNCHANGED <<fi, fsuccess, fcalls, sleepReturned>>

(***************************************************************************)
(* setup() and log()                                                        *)
(***************************************************************************)
Periodicities == {"EverySecond", "EveryMinute", "EveryHour"}

\* the switch of setup(): the timer's period for each alarm periodicity
TimerPeriodOfAlarm(p) ==
    CASE p = "EverySecond" -> 1
      [] p = "EveryMinute" -> 60
      [] p = "EveryHour"   -> 60 * 60

TimerPeriod(p) ==
    CASE p = "EverySecond" -> 1
      [] p = "EveryMinute" -> 15
      [] p = "EveryHour"   -> 60 * 5

\* if (interruptPin != -1)
SleepRequestedAlways(pin) == TRUE
SleepRequested(pin) == pin # -1

\* if (currentepochtime % loggingIntervalMinutes*60 == 0): % and * share a
\* precedence level and associate to the left
LogDue(epoch, interval) == (epoch % interval) * 60 = 0

\* if (sleep) {systemSleep();}
ShouldSleepWhenIdle == sleep /\ ~(\E k \in 1..Len(ops) : ops[k] = "logToSD")
ShouldSleep == sleep

\* the statements of systemSleep, in the order of the source
SleepSequenceClearLate ==
    << "sensorsSleep", "Serial.flush", "Serial1.flush", "ADC off",
       "noInterrupts", "rtc.clearINTStatus", "sleep_enable", "interrupts", "sleep_cpu",
       "sleep_disable", "ADC on", "sensorsWake" >>
SleepSequenceNoWake ==
    << "sensorsSleep", "Serial.flush", "Serial1.flush", "rtc.clearINTStatus",
       "ADC off", "noInterrupts", "sleep_enable", "interrupts", "sleep_cpu",
       "sleep_disable", "ADC on" >>
SleepSequence ==
    << "sensorsSleep", "Serial.flush", "Serial1.flush", "rtc.clearINTStatus",
       "ADC off", "noInterrupts", "sleep_enable", "interrupts", "sleep_cpu",
       "sleep_disable", "ADC on", "sensorsWake" >>

\* The processor takes a pending interrupt before its next instruction when
\* interrupts are enabled, except for the one instruction after interrupts().
InterruptDue == intPending /\ intEnabled /\ ~seiShadow

LoggerInit ==
    /\ interruptPin \in {-1, 2}
    /\ periodicity \in Periodicities
    /\ loggingIntervalMinutes \in 1..MaxInterval
    /\ sleep = FALSE
    /\ timerPeriod = 0
    /\ pc = "setup"
    /\ spos = 0
    /\ setupOps = <<>>
    /\ ops = <<>>
    /\ testedEpoch = -1
    /\ ticks = 0
    /\ sensorsAwake = TRUE
    /\ alarmEnabled = FALSE
    /\ rtcFlag = FALSE
    /\ intPending = FALSE
    /\ intEnabled = TRUE
    /\ seiShadow = FALSE
    /\ sleepEnableBit = FALSE
    /\ adcEnabled = TRUE

\* setup(interruptPin, periodicity), up to the call of setupSensors():
\* rtc.begin() and the start-up note, which reads the clock through
\* getDateTime_ISO8601()
Setup ==
    /\ pc = "setup"
    /\ ~InterruptDue
    /\ currentepochtime' = GetNow(rtcEpoch, timeZone)
    /\ spc' = "for"
    /\ setupOps' = <<"rtc.begin", "setupSensors">>
    /\ pc' = "setupSensors"
    /\ UNCHANGED <<sensorList, sensorValues, fanVars, updateVars, sinkVars, hwVars, configVars, timeVars, k30Vars, driverVars,
                   si, setupTries, sensorSuccess, success, ssOwner, setupResults, anded, okAt,
                   rtcEpoch, elapsed, timeZone, currentTime,
                   sleep, timerPeriod, spos, ops, testedEpoch, ticks, sensorsAwake>>

\* setup() goes on after setupSensors() whatever it returned: the call is a
\* statement, its value is discarded
SetupProceedsIfOk(ok) == ok
SetupProceeds(ok) == TRUE

\* the date of a local epoch: getDateTime_ISO8601().substring(0,10)
DateOf(localEpoch) == localEpoch \div (24 * 3600)

\* String(_loggerID) + "_" + <date> + ".txt"
NoFileName == [id |-> "", date |-> 0]
FileNameFor(id, localEpoch) == [id |-> id, date |-> DateOf(localEpoch)]

\* setupLogFile(): if (!SD.begin(_SDCardPin)) only prints a diagnostic; the
\* function goes on to name and open the file whether the card began or not
LogFileSetupGoesOnIfBegan(began) == began
LogFileSetupGoesOn(began) == TRUE

\* what reaches the card of the lines log() printed: a File that failed to
\* open (no card) swallows what is printed to it
Persisted == IF sdOK THEN appended ELSE <<>>

\* setup(): the statement that follows setupLogFile() is the switch on the
\* periodicity and setupTimer(period)
StepAfterLogFileIsSleep == "setupSleep"
StepAfterLogFile == "setupTimer"

\* setup(): setupSensors() has returned; setupLogFile() computes the file name
\* from the logger ID and the date the clock shows now
SetupLogFile ==
    /\ UNCHANGED notLogger
    /\ pc = "setupSensors"
    /\ spc = "done"
    /\ ~InterruptDue
    /\ IF SetupProceeds(success)
       THEN /\ IF LogFileSetupGoesOn(sdOK)
               THEN /\ currentepochtime' = GetNow(rtcEpoch, timeZone)
                    /\ fileName' = FileNameFor(LoggerID, GetNow(rtcEpoch, timeZone))
               ELSE UNCHANGED <<currentepochtime, fileName>>
            /\ setupOps' = Append(setupOps, "setupLogFile")
            /\ pc' = StepAfterLogFile
       ELSE /\ pc' = "loop"
            /\ UNCHANGED <<currentepochtime, fileName, setupOps>>
    /\ UNCHANGED <<rtcEpoch, elapsed, timeZone, currentTime, configVars, sleep, timerPeriod,
                   spos, ops, testedEpoch, ticks, sensorsAwake, hwVars, appended, files,
                   created, sdOK>>

\* setup(): the switch on periodicity and setupTimer(period)
SetupTimer ==
    /\ UNCHANGED notLogger
    /\ pc = "setupTimer"
    /\ ~InterruptDue
    /\ timerPeriod' = TimerPeriod(periodicity)
    /\ setupOps' = Append(setupOps, "setupTimer")
    /\ pc' = "setupSleep"
    /\ UNCHANGED <<clockVars, configVars, sleep, spos, ops, testedEpoch, ticks,
                   sensorsAwake, hwVars, sinkVars>>

\* setup(): if an interrupt pin is given, set the sleep flag and enable the
\* RTC's alarm interrupt (setupSleep); then return
SetupSleep ==
    /\ UNCHANGED notLogger
    /\ pc = "setupSleep"
    /\ ~InterruptDue
    /\ sleep' = SleepRequested(interruptPin)
    /\ alarmEnabled' = SleepRequested(interruptPin)
    /\ setupOps' = setupOps \o (IF SleepRequested(interruptPin)
                                 THEN <<"sleep = true", "setupSleep">>
                                 ELSE <<>>)
    /\ pc' = "loop"
    /\ UNCHANGED <<clockVars, configVars, timerPeriod, spos, ops, testedEpoch, ticks,
                   sensorsAwake, rtcFlag, intPending, intEnabled, seiShadow,
                   sleepEnableBit, adcEnabled, sinkVars>>

\* log(): timer.update(), which reads the clock through getNow()
LogTimerUpdate ==
    /\ UNCHANGED notLogger
    /\ UNCHANGED setupOps
    /\ pc = "loop"
    /\ ~InterruptDue
    /\ currentepochtime' = GetNow(rtcEpoch, timeZone)
    /\ ops' = <<"timer.update">>
    /\ ticks' = IF ticks < MaxTicks THEN ticks + 1 ELSE ticks
    /\ pc' = "check"
    /\ appended' = <<>>
    /\ UNCHANGED <<rtcEpoch, elapsed, timeZone, currentTime, configVars, sleep,
                   timerPeriod, spos, testedEpoch, sensorsAwake, hwVars, fileName, files,
                   created, sdOK>>

\* log(): the statement after digitalWrite(ledPin, HIGH) is updateAllSensors()
FirstCycleStepIsAppend == "append"
FirstCycleStep == "update"

\* log(): the alignment test; digitalWrite(ledPin, HIGH) when it passes
LogCheck ==
    /\ UNCHANGED notLogger
    /\ UNCHANGED setupOps
    /\ pc = "check"
    /\ ~InterruptDue
    /\ testedEpoch' = currentepochtime
    /\ IF LogDue(currentepochtime, loggingIntervalMinutes)
       THEN /\ ops' = Append(ops, "led on")
            /\ pc' = FirstCycleStep
       ELSE /\ ops' = ops
            /\ pc' = "sleeptest"
    /\ UNCHANGED <<clockVars, configVars, sleep, timerPeriod, spos, ticks,
                   sensorsAwake, hwVars, sinkVars>>

\* log(): updateAllSensors(), which reads the clock at entry
LogUpdate ==
    /\ UNCHANGED notLogger
    /\ UNCHANGED setupOps
    /\ pc = "update"
    /\ ~InterruptDue
    /\ currentepochtime' = GetNow(rtcEpoch, timeZone)
    /\ currentTime' = GetNow(rtcEpoch, timeZone)
    /\ ops' = Append(ops, "updateAllSensors")
    /\ pc' = "append"
    /\ UNCHANGED <<rtcEpoch, elapsed, timeZone, configVars, sleep, timerPeriod, spos,
                   testedEpoch, ticks, sensorsAwake, hwVars, sinkVars>>

\* logToSD: SD.open(LoggerBase::_fileName, FILE_WRITE), the file it appends to
AppendTargetToday == FileNameFor(LoggerID, currentepochtime)
AppendTarget == fileName

\* log(): logToSD(generateSensorDataCSV()); digitalWrite(ledPin, LOW)
LogToSD ==
    /\ UNCHANGED notLogger
    /\ UNCHANGED setupOps
    /\ pc = "append"
    /\ ~InterruptDue
    /\ ops' = ops \o <<"logToSD", "led off">>
    /\ appended' = Append(appended, [name |-> AppendTarget,
                                     line |-> GenerateSensorDataCSV(CSVTimestamp, sensorValues)])
    /\ pc' = "sleeptest"
    /\ UNCHANGED <<clockVars, configVars, sleep, timerPeriod, spos, testedEpoch,
                   ticks, sensorsAwake, hwVars, fileName, files, created, sdOK>>

\* log(): if (sleep) {systemSleep();}, else return
LogSleepTest ==
    /\ UNCHANGED notLogger
    /\ UNCHANGED setupOps
    /\ pc = "sleeptest"
    /\ ~InterruptDue
    /\ IF ShouldSleep
       THEN /\ ops' = Append(ops, "systemSleep")
            /\ pc' = "sleep"
            /\ spos' = 1
       ELSE /\ ops' = ops
            /\ pc' = "loop"
            /\ spos' = 0
    /\ UNCHANGED <<clockVars, configVars, sleep, timerPeriod, testedEpoch, ticks,
                   sensorsAwake, hwVars, sinkVars>>

(***************************************************************************)
(* The log file on the SD card: setupLogFile, logToSD and log() as whole     *)
(* calls.  A file is a sequence of lines, a line a sequence of tokens.       *)
(***************************************************************************)
\* an SD card with no file on it
EmptyCard == [n \in {} |-> <<>>]

Text(str) == [text |-> str]
Quoted(parts) == [quoted |-> parts]

\* getVarName() and getVarUnit() of a handle, and _UUIDs[i]
VarNameOf(h) == IF h.name = "SensorA" THEN "temperature" ELSE "CO2"
VarUnitOf(h) == IF h.name = "SensorA" THEN "degC" ELSE "ppm"
UUIDOf(i) == <<"uuid", i>>

\* "\"" + name + " " + var name + " " + var unit + " (" + UUID + ")\""
ColumnField(list, i) ==
    Quoted(<<list[i].name, " ", VarNameOf(list[i]), " ", VarUnitOf(list[i]),
             " (", UUIDOf(i), ")">>)

\* the for loop of setupLogFile: each column, and ", " unless it is the last
RECURSIVE HeaderLoop(_, _, _)
HeaderLoop(line, list, i) ==
    IF i > Len(list)
    THEN line
    ELSE HeaderLoop((line \o <<ColumnField(list, i)>>)
                        \o (IF i # Len(list) THEN <<Sep>> ELSE <<>>),
                    list, i + 1)

\* the handles of list that differ from every earlier one, in list order
RECURSIVE DistinctHandles(_, _)
DistinctHandles(list, i) ==
    IF i > Len(list) THEN <<>>
    ELSE (IF \E j \in 1..(i - 1) : list[j] = list[i] THEN <<>> ELSE <<list[i]>>)
         \o DistinctHandles(list, i + 1)

DataHeaderDistinct(list) ==
    HeaderLoop(<<Quoted(<<"Timestamp">>), Sep>>, DistinctHandles(list, 1), 1)

\* String dataHeader = F("\"Timestamp\", "), then the loop
DataHeader(list) == HeaderLoop(<<Quoted(<<"Timestamp">>), Sep>>, list, 1)

\* the lines setupLogFile prints into a new file
HeaderLinesNoFeature(id, feature, list) == << <<Text(id)>>, DataHeader(list) >>
HeaderLines(id, feature, list) ==
    << <<Text(id)>>,
       <<Text("Sampling Feature UUID: "), Text(feature)>>,
       DataHeader(list) >>

\* if (!oldFile)
HeaderDueAlways(oldFile) == TRUE
HeaderDue(oldFile) == ~oldFile

\* SD.open(name, FILE_WRITE) creates the file if there is none and positions
\* at its end; println adds the lines
AppendLines(card, name, lines) ==
    [n \in DOMAIN card \cup {name} |->
        IF n = name
        THEN (IF name \in DOMAIN card THEN card[name] ELSE <<>>) \o lines
        ELSE card[n]]

\* setupLogFile(): name the file after the logger and today's date, open it,
\* print the header if it did not exist
FileSetupLogFile ==
    /\ UNCHANGED notLogger
    /\ UNCHANGED setupOps
    /\ ~InterruptDue
    /\ pc \in {"setup", "loop"}
    /\ LET now     == GetNow(rtcEpoch, timeZone)
           name    == FileNameFor(LoggerID, now)
           oldFile == name \in DOMAIN files
       IN  /\ currentepochtime' = now
           /\ fileName' = name
           /\ created' = ~oldFile
           /\ files' = AppendLines(files, name,
                                   IF HeaderDue(oldFile)
                                   THEN HeaderLines(LoggerID, SamplingFeature, sensorList)
                                   ELSE <<>>)
    /\ ops' = <<"setupLogFile">>
    /\ pc' = "loop"
    /\ UNCHANGED <<rtcEpoch, elapsed, timeZone, currentTime, configVars, sleep, timerPeriod,
                   spos, testedEpoch, ticks, sensorsAwake, hwVars, appended, sdOK>>

\* log(loggingIntervalMinutes) of a logger that does not sleep: timer.update(),
\* the alignment test and, when it passes, updateAllSensors() and
\* logToSD(generateSensorDataCSV())
FileLog ==
    /\ UNCHANGED <<sensorList, fanVars, setupVars, updateVars, setupOps, timeVars, k30Vars, driverVars>>
    /\ ~InterruptDue
    /\ pc = "loop"
    /\ ticks < MaxFileTicks
    /\ ticks' = ticks + 1
    /\ LET now == GetNow(rtcEpoch, timeZone) IN
        /\ currentepochtime' = now
        /\ testedEpoch' = now
        /\ IF LogDue(now, loggingIntervalMinutes)
           THEN /\ currentTime' = now
                /\ sensorValues' \in [1..Len(sensorList) -> Values]
                /\ LET line == GenerateSensorDataCSV(now, sensorValues') IN
                    /\ files' = AppendLines(files, AppendTarget, <<line>>)
                    /\ appended' = <<[name |-> AppendTarget, line |-> line]>>
                /\ ops' = <<"timer.update", "led on", "updateAllSensors", "logToSD", "led off">>
           ELSE /\ appended' = <<>>
                /\ ops' = <<"timer.update">>
                /\ UNCHANGED <<currentTime, sensorValues, files>>
    /\ UNCHANGED <<rtcEpoch, elapsed, timeZone, configVars, sleep, timerPeriod, pc, spos,
                   sensorsAwake, hwVars, fileName, created, sdOK>>

(***************************************************************************)
(* systemSleep, one statement per step                                      *)
(***************************************************************************)
SleepStep ==
    /\ UNCHANGED notLogger
    /\ UNCHANGED setupOps
    /\ pc = "sleep"
    /\ ~InterruptDue
    /\ LET st == SleepSequence[spos] IN
        /\ ops' = Append(ops, st)
        /\ sensorsAwake' = CASE st = "sensorsSleep" -> FALSE
                             [] st = "sensorsWake"  -> TRUE
                             [] OTHER               -> sensorsAwake
        \* clearing the latched flag releases the alarm pin: a pin change
        /\ rtcFlag' = IF st = "rtc.clearINTStatus" THEN FALSE ELSE rtcFlag
        /\ intPending' = IF st = "rtc.clearINTStatus" THEN (intPending \/ rtcFlag)
                         ELSE intPending
        /\ adcEnabled' = CASE st = "ADC off" -> FALSE
                           [] st = "ADC on"  -> TRUE
                           [] OTHER          -> adcEnabled
        /\ intEnabled' = CASE st = "noInterrupts" -> FALSE
                           [] st = "interrupts"   -> TRUE
                           [] OTHER               -> intEnabled
        /\ seiShadow' = (st = "interrupts")
        /\ sleepEnableBit' = CASE st = "sleep_enable"  -> TRUE
                               [] st = "sleep_disable" -> FALSE
                               [] OTHER                -> sleepEnableBit
        \* sleep_cpu halts the core only while the SE bit is set
        /\ IF st = "sleep_cpu" /\ sleepEnableBit
           THEN pc' = "halted" /\ spos' = spos + 1
           ELSE IF spos = Len(SleepSequence)
                THEN pc' = "loop" /\ spos' = 0
                ELSE pc' = "sleep" /\ spos' = spos + 1
    /\ UNCHANGED <<clockVars, configVars, sleep, timerPeriod, testedEpoch, ticks,
                   alarmEnabled, sinkVars>>

(***************************************************************************)
(* The RTC and the interrupt                                                *)
(***************************************************************************)
\* the period, in seconds, of the alarm rtc.enableInterrupts(periodicity) sets
AlarmSeconds(p) ==
    CASE p = "EverySecond" -> 1
      [] p = "EveryMinute" -> 60
      [] p = "EveryHour"   -> 3600

\* One second passes. When the alarm matches and the RTC's flag is clear, the
\* flag latches and the alarm pin falls: a pin change. While the flag is
\* latched no further interrupt is sent.
RTCSecond ==
    /\ UNCHANGED notLogger
    /\ elapsed < MaxElapsed
    /\ rtcEpoch' = rtcEpoch + 1
    /\ elapsed' = elapsed + 1
    /\ IF alarmEnabled /\ (rtcEpoch + 1) % AlarmSeconds(periodicity) = 0 /\ ~rtcFlag
       THEN rtcFlag' = TRUE /\ intPending' = TRUE
       ELSE UNCHANGED <<rtcFlag, intPending>>
    /\ UNCHANGED <<timeZone, currentepochtime, currentTime, configVars, loggerVars,
                   alarmEnabled, intEnabled, seiShadow, sleepEnableBit, adcEnabled, sinkVars>>

\* wakeISR(): the body is empty, the cached epoch is left as it is
WakeISREpochFresh == GetNow(rtcEpoch, timeZone)
WakeISREpoch == currentepochtime

\* The pin-change interrupt is taken: wakeISR() runs (its body is empty) and
\* a halted core resumes after sleep_cpu().
WakeISR ==
    /\ UNCHANGED notLogger
    /\ UNCHANGED setupOps
    /\ InterruptDue
    /\ intPending' = FALSE
    /\ pc' = IF pc = "halted" THEN "sleep" ELSE pc
    /\ currentepochtime' = WakeISREpoch
    /\ UNCHANGED <<rtcEpoch, elapsed, timeZone, currentTime,
                   configVars, sleep, timerPeriod, spos, ops, testedEpoch,
                   ticks, sensorsAwake, alarmEnabled, rtcFlag, intEnabled, seiShadow,
                   sleepEnableBit, adcEnabled, sinkVars>>

(***************************************************************************)
(* Idle values of the parts a specification does not run                    *)
(***************************************************************************)
UpdateIdle ==
    /\ upc = "idle"
    /\ ui = 1
    /\ usuccess = TRUE
    /\ updateResults = <<>>
    /\ csv = <<>>

ValuesIdle == sensorValues = [k \in 1..Len(sensorList) |-> NoReading]

SinkIdle ==
    /\ fileName = NoFileName
    /\ appended = <<>>
    /\ files = EmptyCard
    /\ created = FALSE
    /\ sdOK = TRUE

\* setupSensors has not been called yet; setup() will call it
SetupPending ==
    /\ spc = "idle"
    /\ si = 1
    /\ setupTries = 0
    /\ sensorSuccess = FALSE
    /\ success = TRUE
    /\ ssOwner = 0
    /\ setupResults = [k \in 1..Len(sensorList) |-> <<>>]
    /\ anded = [k \in 1..Len(sensorList) |-> <<>>]

FanoutIdle ==
    /\ fpc = "idle"
    /\ fi = 1
    /\ fsuccess = TRUE
    /\ fcalls = <<>>
    /\ sleepReturned = <<>>
    /\ wakeReturned = <<>>

SetupIdle ==
    /\ spc = "idle"
    /\ si = 1
    /\ setupTries = 0
    /\ sensorSuccess = FALSE
    /\ success = TRUE
    /\ ssOwner = 0
    /\ setupResults = <<>>
    /\ anded = <<>>
    /\ okAt = <<>>

ClockIdle ==
    /\ rtcEpoch = EpochBase
    /\ elapsed = 0
    /\ timeZone = 0
    /\ currentepochtime = 0
    /\ currentTime = -1

TimeIdle ==
    /\ rtcRead = -1
    /\ dateTimeStr = NoDateTimeStr

K30Idle ==
    /\ kpc = "idle"
    /\ available = 0
    /\ timeout = 0
    /\ rangeAttempts = 0
    /\ ksuccess = FALSE
    /\ result = NoReading
    /\ packet = <<0, 0>>
    /\ writes = 0
    /\ verified = <<>>
    /\ kreturned = <<>>

AtmosIdle ==
    /\ apc = "idle"
    /\ amodel = "Atmos14"
    /\ areadings = <<NoReading, NoReading, NoReading, NoReading>>
    /\ acalls = <<>>
    /\ areturned = <<>>

NistIdle ==
    /\ npc = "idle"
    /\ ni = 0
    /\ nmillis = 0
    /\ lastNISTrequest = 0
    /\ connectionMade = FALSE
    /\ nLastConnect = -1
    /\ nPrevConnect = -1
    /\ nAttempts = 0
    /\ nGotBytes = FALSE
    /\ nInternet = FALSE
    /\ nreturned = <<>>
    /\ ncalls = 0

XBeeIdle ==
    /\ xpc = "idle"
    /\ xsuccess = TRUE
    /\ xstep = 1
    /\ xEarlyFail = "none"
    /\ xmillis = 0
    /\ xPollStart = -1
    /\ regCount = 0
    /\ apRegistered = FALSE
    /\ xpolls = <<>>
    /\ mdmLp = 1
    /\ xreset = FALSE
    /\ xreturned = <<>>

\* no strcpy yet
NoCopy == [field |-> "none", written |-> 0, capacity |-> 0]

\* _ssid_buf and _pwd_buf are NULL, as the first call of each setter expects
WifiIdle ==
    /\ wbufCap = [f \in {"ssid", "pwd"} |-> 0]
    /\ wptr = [f \in {"ssid", "pwd"} |-> "caller"]
    /\ wlast = NoCopy
    /\ wcalls = 0
    /\ wpc = "ready"

\* no driver of the later sections is running
DriversIdle == AtmosIdle /\ NistIdle /\ XBeeIdle /\ WifiIdle

LoggerIdle ==
    /\ interruptPin = -1
    /\ periodicity = "EveryMinute"
    /\ loggingIntervalMinutes = 1
    /\ sleep = FALSE
    /\ timerPeriod = 0
    /\ pc = "idle"
    /\ spos = 0
    /\ setupOps = <<>>
    /\ ops = <<>>
    /\ testedEpoch = -1
    /\ ticks = 0
    /\ sensorsAwake = TRUE
    /\ alarmEnabled = FALSE
    /\ rtcFlag = FALSE
    /\ intPending = FALSE
    /\ intEnabled = TRUE
    /\ seiShadow = FALSE
    /\ sleepEnableBit = FALSE
    /\ adcEnabled = TRUE

(***************************************************************************)
(* SpecSetup: one call of setupSensors, for every sensor list of at most    *)
(* MaxSensors handles and every choice of the attempt on which each         *)
(* handle's setup() first succeeds (SetupTriesLimit + 1: not within 5).     *)
(***************************************************************************)
InitSetup ==
    /\ sensorList \in SensorLists
    /\ okAt \in [1..Len(sensorList) -> 1..(SetupTriesLimit + 1)]
    /\ ValuesIdle
    /\ TimeIdle
    /\ K30Idle
    /\ DriversIdle
    /\ FanoutIdle
    /\ SinkIdle
    /\ SetupInit
    /\ UpdateIdle
    /\ ClockIdle
    /\ LoggerIdle

NextSetup == SetupForTest \/ SetupAttempt \/ SetupWhileExit \/ SetupAccumulate

SpecSetup == InitSetup /\ [][NextSetup]_vars

(***************************************************************************)
(* SpecUpdate: one call of updateAllSensors, for every sensor list of at    *)
(* most MaxSensors handles and every result of every update().              *)
(***************************************************************************)
InitUpdate ==
    /\ sensorList \in SensorLists
    /\ ValuesIdle
    /\ TimeIdle
    /\ K30Idle
    /\ DriversIdle
    /\ FanoutIdle
    /\ SinkIdle
    /\ UpdateInit
    /\ SetupIdle
    /\ rtcEpoch = EpochBase
    /\ elapsed = 0
    /\ timeZone \in TimeZones
    /\ currentepochtime = 0
    /\ currentTime = -1
    /\ LoggerIdle

NextUpdate == UpdateEntry \/ UpdateForTest \/ UpdateSensor \/ UpdateGenerateCSV

SpecUpdate == InitUpdate /\ [][NextUpdate]_vars

(***************************************************************************)
(* SpecFanout: one call of sensorsSleep followed by one call of sensorsWake, *)
(* for every sensor list of at most MaxSensors handles and every result of   *)
(* every sleep() and wake().                                                 *)
(***************************************************************************)
InitFanout ==
    /\ sensorList \in SensorLists
    /\ ValuesIdle
    /\ TimeIdle
    /\ K30Idle
    /\ DriversIdle
    /\ SinkIdle
    /\ FanoutInit
    /\ SetupIdle
    /\ UpdateIdle
    /\ ClockIdle
    /\ LoggerIdle

NextFanout == FanoutCall \/ FanoutSleepReturn \/ FanoutWakeReturn

SpecFanout == InitFanout /\ [][NextFanout]_vars

(***************************************************************************)
(* The clock on its own: getNow and getDateTime_ISO8601 under every time   *)
(* zone the formatter has a branch for, while the RTC advances.            *)
(***************************************************************************)
TimeZoneRange == -24..24

InitTime ==
    /\ sensorList = <<>>
    /\ ValuesIdle
    /\ TimeIdle
    /\ K30Idle
    /\ DriversIdle
    /\ FanoutIdle
    /\ SinkIdle
    /\ SetupIdle
    /\ UpdateIdle
    /\ LoggerIdle
    /\ rtcEpoch = EpochBase
    /\ elapsed = 0
    /\ timeZone \in TimeZoneRange
    /\ currentepochtime = 0
    /\ currentTime = -1

NextTime == TimeGetNow \/ TimeGetDateTime \/ RTCSecond

SpecTime == InitTime /\ [][NextTime]_vars

(***************************************************************************)
(* SenseairK30::addSingleMeasurementResult, statement by statement, with   *)
(* the serial stream as its environment: a byte may arrive whenever the     *)
(* driver is inside one of its delays, or never.                            *)
(***************************************************************************)
\* the K30's reply is PacketLength bytes long
PacketLength == 7
\* while (success == false && rangeAttempts < 25)
RangeAttemptsLimit == 25
\* if (timeout > 10)
TimeoutLimit == 10
\* float valMultiplier = 10
valMultiplier == 10

\* packet[3] and packet[4] of a reply, sampled
ByteSamples == {0, 1, 13, 255}

\* result = (high * 256 + low) * valMultiplier: a float converted to the
\* int16_t result. A value above 32767 has no int16_t: the conversion is
\* undefined, and the build either truncates to 16 bits or saturates.
K30Result(high, low) ==
    LET v == (high * 256 + low) * valMultiplier
    IN  IF v <= 32767 THEN {v} ELSE {Int16(v), 32767}

\* entry: bool success = false; int16_t result = -9999; rangeAttempts = 0
K30Begin ==
    /\ kpc = "idle"
    /\ ksuccess' = FALSE
    /\ result' = NoReading
    /\ rangeAttempts' = 0
    /\ kpc' = "while"
    /\ UNCHANGED <<available, timeout, packet, writes, verified, kreturned>>
    /\ UNCHANGED <<sensorList, sensorValues, fanVars, setupVars, updateVars, clockVars,
                   configVars, loggerVars, hwVars, sinkVars, timeVars, driverVars>>

\* while (success == false && rangeAttempts < 25) { int timeout = 0; ...
\* When the test fails control leaves the loop and falls off the end of
\* the function: the only return statement is inside the loop's body.
K30WhileTest ==
    /\ kpc = "while"
    /\ IF ksuccess = FALSE /\ rangeAttempts < RangeAttemptsLimit
       THEN timeout' = 0 /\ kpc' = "request"
       ELSE UNCHANGED timeout /\ kpc' = "fellOff"
    /\ UNCHANGED <<available, rangeAttempts, ksuccess, result, packet, writes, verified,
                   kreturned>>
    /\ UNCHANGED <<sensorList, sensorValues, fanVars, setupVars, updateVars, clockVars,
                   configVars, loggerVars, hwVars, sinkVars, timeVars, driverVars>>

\* while (!_stream->available()) { _stream->write(readCO2, 7); ...
\* The loop tests nothing but the buffer; on leaving it timeout = 0.
K30Request ==
    /\ kpc = "request"
    /\ IF available = 0
       THEN /\ writes' = IF writes < MaxWrites THEN writes + 1 ELSE writes
            /\ kpc' = "requestDelay"
            /\ UNCHANGED timeout
       ELSE /\ timeout' = 0
            /\ kpc' = "wait"
            /\ UNCHANGED writes
    /\ UNCHANGED <<available, rangeAttempts, ksuccess, result, packet, verified, kreturned>>
    /\ UNCHANGED <<sensorList, sensorValues, fanVars, setupVars, updateVars, clockVars,
                   configVars, loggerVars, hwVars, sinkVars, timeVars, driverVars>>

\* ... delay(50); } and back to the loop's test
K30RequestDelay ==
    /\ kpc = "requestDelay"
    /\ kpc' = "request"
    /\ UNCHANGED <<available, timeout, rangeAttempts, ksuccess, result, packet, writes,
                   verified, kreturned>>
    /\ UNCHANGED <<sensorList, sensorValues, fanVars, setupVars, updateVars, clockVars,
                   configVars, loggerVars, hwVars, sinkVars, timeVars, driverVars>>

\* while (_stream->available() < 7) { timeout++; if (timeout > 10) { drain
\* the buffer; break; } delay(50); }
K30Wait ==
    /\ kpc = "wait"
    /\ IF available < PacketLength
       THEN /\ timeout' = timeout + 1
            /\ IF timeout + 1 > TimeoutLimit
               THEN available' = 0 /\ kpc' = "parse"
               ELSE UNCHANGED <<available, kpc>>
       ELSE /\ kpc' = "parse"
            /\ UNCHANGED <<available, timeout>>
    /\ UNCHANGED <<rangeAttempts, ksuccess, result, packet, writes, verified, kreturned>>
    /\ UNCHANGED <<sensorList, sensorValues, fanVars, setupVars, updateVars, clockVars,
                   configVars, loggerVars, hwVars, sinkVars, timeVars, driverVars>>

\* if (_stream->available() >= 7) { readBytes(packet, 7); result = ...; }
\* else { result = -9999; }  rangeAttempts++;
K30Parse ==
    /\ kpc = "parse"
    /\ IF available >= PacketLength
       THEN \E high \in ByteSamples, low \in ByteSamples :
                /\ packet' = <<high, low>>
                /\ available' = available - PacketLength
                /\ result' \in K30Result(high, low)
       ELSE /\ result' = NoReading
            /\ UNCHANGED <<packet, available>>
    /\ rangeAttempts' = rangeAttempts + 1
    /\ kpc' = "check"
    /\ UNCHANGED <<timeout, ksuccess, writes, verified, kreturned>>
    /\ UNCHANGED <<sensorList, sensorValues, fanVars, setupVars, updateVars, clockVars,
                   configVars, loggerVars, hwVars, sinkVars, timeVars, driverVars>>

\* if (result <= 0) { result = -9999; } else { success = true; }
\* verifyAndAddMeasurementResult(K30_VAR_NUM, result); return success;
\* all of it inside the body of the while loop
K30CheckAndReturn ==
    /\ kpc = "check"
    /\ LET bad == result <= 0
           res == IF bad THEN NoReading ELSE result
           suc == IF bad THEN ksuccess ELSE TRUE
       IN  /\ result' = res
           /\ ksuccess' = suc
           /\ verified' = Append(verified, res)
           /\ kreturned' = <<suc>>
    /\ kpc' = "returned"
    /\ UNCHANGED <<available, timeout, rangeAttempts, packet, writes>>
    /\ UNCHANGED <<sensorList, sensorValues, fanVars, setupVars, updateVars, clockVars,
                   configVars, loggerVars, hwVars, sinkVars, timeVars, driverVars>>

\* The stream: one more byte has been received. Bytes arrive while the
\* driver sits in a delay, whether or not a command was written, and
\* nothing obliges the sensor to send any.
K30ByteArrives ==
    /\ kpc \in {"request", "requestDelay", "wait"}
    /\ available < MaxAvailable
    /\ available' = available + 1
    /\ UNCHANGED <<kpc, timeout, rangeAttempts, ksuccess, result, packet, writes, verified,
                   kreturned>>
    /\ UNCHANGED <<sensorList, sensorValues, fanVars, setupVars, updateVars, clockVars,
                   configVars, loggerVars, hwVars, sinkVars, timeVars, driverVars>>

\* the driver's own steps: the processor keeps executing them
K30Program ==
    \/ K30Begin
    \/ K30WhileTest
    \/ K30Request
    \/ K30RequestDelay
    \/ K30Wait
    \/ K30Parse
    \/ K30CheckAndReturn

InitK30 ==
    /\ sensorList = <<>>
    /\ ValuesIdle
    /\ TimeIdle
    /\ K30Idle
    /\ DriversIdle
    /\ FanoutIdle
    /\ SinkIdle
    /\ SetupIdle
    /\ UpdateIdle
    /\ ClockIdle
    /\ LoggerIdle

NextK30 ==
    \/ K30Begin
    \/ K30WhileTest
    \/ K30Request
    \/ K30RequestDelay
    \/ K30Wait
    \/ K30Parse
    \/ K30CheckAndReturn
    \/ K30ByteArrives

SpecK30 == InitK30 /\ [][NextK30]_vars

\* the processor never stops executing the driver while it has a step to take
SpecK30Fair == SpecK30 /\ WF_vars(K30Program)

(***************************************************************************)
(* MeterAtmos14::getResults and MeterAtmos22::getResults: four floats are   *)
(* parsed from the SDI-12 reply, range-checked and handed, one by one, to   *)
(* verifyAndAddMeasurementResult with the variable number of their slot.    *)
(***************************************************************************)
ATMOS14_NUM_VARIABLES == 4
ATMOS14_TEMP_VAR_NUM == 0
ATMOS14_RH_VAR_NUM == 1
ATMOS14_PRES_VAR_NUM == 2
ATMOS14_VP_VAR_NUM == 4
ATMOS22_NUM_VARIABLES == 4
ATMOS22_WS_VAR_NUM == 0
ATMOS22_WD_VAR_NUM == 1
ATMOS22_WG_VAR_NUM == 2
ATMOS22_TEMP_VAR_NUM == 3

AtmosModels == {"Atmos14", "Atmos22"}

\* the values parseFloat returns, sampled below, inside and above the ranges
AtmosSamples == {-60, 20, 95}

\* the number of variables the constructor declares
AtmosNumVariables(model) ==
    IF model = "Atmos14" THEN ATMOS14_NUM_VARIABLES ELSE ATMOS22_NUM_VARIABLES

\* the variable numbers of the four calls, in the order of the calls; the
\* values are parsed in the same order (Atmos14: vp, temp, rh, baro;
\* Atmos22: windSpeed, windDir, windGust, temperature)
AtmosVarNums(model) ==
    IF model = "Atmos14"
    THEN <<ATMOS14_VP_VAR_NUM, ATMOS14_TEMP_VAR_NUM, ATMOS14_RH_VAR_NUM, ATMOS14_PRES_VAR_NUM>>
    ELSE <<ATMOS22_WS_VAR_NUM, ATMOS22_WD_VAR_NUM, ATMOS22_WG_VAR_NUM, ATMOS22_TEMP_VAR_NUM>>

\* where the temperature is among the parsed values
AtmosTempIndex(model) == IF model = "Atmos14" THEN 2 ELSE 4

OutOfRange(v, lo, hi) == v < lo \/ v > hi

\* the range checks before the results are saved
AtmosRangeChecked(model, r) ==
    IF model = "Atmos14"
    THEN <<r[1], IF OutOfRange(r[2], -50, 90) THEN NoReading ELSE r[2], r[3], r[4]>>
    ELSE <<IF OutOfRange(r[1], 0, 30) THEN NoReading ELSE r[1],
           IF OutOfRange(r[2], 0, 360) THEN NoReading ELSE r[2],
           IF OutOfRange(r[3], 0, 30) THEN NoReading ELSE r[3],
           IF OutOfRange(r[4], -40, 80) THEN NoReading ELSE r[4]>>

notAtmos == <<sensorList, sensorValues, fanVars, setupVars, updateVars, clockVars, configVars,
              loggerVars, hwVars, sinkVars, timeVars, k30Vars, nistVars, xbeeVars,
             wifiVars>>

\* the reply is parsed: four parseFloat calls
AtmosParse ==
    /\ apc = "idle"
    /\ areadings' \in [1..4 -> AtmosSamples]
    /\ apc' = "check"
    /\ UNCHANGED <<amodel, acalls, areturned>>
    /\ UNCHANGED notAtmos

\* the range checks
AtmosRangeCheck ==
    /\ apc = "check"
    /\ areadings' = AtmosRangeChecked(amodel, areadings)
    /\ apc' = "add"
    /\ UNCHANGED <<amodel, acalls, areturned>>
    /\ UNCHANGED notAtmos

\* the next verifyAndAddMeasurementResult(varNum, value) call
AtmosAddResult ==
    /\ apc = "add"
    /\ LET i == Len(acalls) + 1 IN
        /\ acalls' = Append(acalls, [var |-> AtmosVarNums(amodel)[i], val |-> areadings[i]])
        /\ apc' = IF i = 4 THEN "return" ELSE "add"
    /\ UNCHANGED <<amodel, areadings, areturned>>
    /\ UNCHANGED notAtmos

\* return temp != -9999
AtmosReturn ==
    /\ apc = "return"
    /\ areturned' = <<areadings[AtmosTempIndex(amodel)] # NoReading>>
    /\ apc' = "returned"
    /\ UNCHANGED <<amodel, areadings, acalls>>
    /\ UNCHANGED notAtmos

InitAtmos ==
    /\ sensorList = <<>>
    /\ ValuesIdle
    /\ TimeIdle
    /\ K30Idle
    /\ FanoutIdle
    /\ SinkIdle
    /\ SetupIdle
    /\ UpdateIdle
    /\ ClockIdle
    /\ LoggerIdle
    /\ apc = "idle"
    /\ amodel \in AtmosModels
    /\ areadings = <<NoReading, NoReading, NoReading, NoReading>>
    /\ acalls = <<>>
    /\ areturned = <<>>
    /\ NistIdle
    /\ XBeeIdle
    /\ WifiIdle

NextAtmos == AtmosParse \/ AtmosRangeCheck \/ AtmosAddResult \/ AtmosReturn

SpecAtmos == InitAtmos /\ [][NextAtmos]_vars

(***************************************************************************)
(* DigiXBeeWifi::getNISTTime: up to NIST_SERVER_RETRYS connections to the   *)
(* time server.  Time is millis(), advanced in steps of a second by the     *)
(* waits of the function.                                                   *)
(***************************************************************************)
NIST_SERVER_RETRYS == 4
\* while (millis() < _lastNISTrequest + 4000)
NISTGapMillis == 4000
\* millis() - start < 5000L
NISTResponseMillis == 5000
\* the step of millis() in the model
MillisStep == 1000

notNist == <<sensorList, sensorValues, fanVars, setupVars, updateVars, clockVars, configVars,
             loggerVars, hwVars, sinkVars, timeVars, k30Vars, atmosVars, xbeeVars,
             wifiVars>>

\* entry: if (!isInternetAvailable()) return 0; gsmClient.stop();
NistCall ==
    /\ npc = "idle"
    /\ ncalls < MaxNistCalls
    /\ ncalls' = ncalls + 1
    /\ nAttempts' = 0
    /\ nGotBytes' = FALSE
    /\ \E avail \in BOOLEAN :
        /\ nInternet' = avail
        /\ IF avail
           THEN /\ ni' = 0
                /\ npc' = "for"
                /\ nreturned' = <<>>
           ELSE /\ nreturned' = <<"zero">>
                /\ UNCHANGED <<ni, npc>>
    /\ UNCHANGED <<nmillis, lastNISTrequest, connectionMade, nLastConnect, nPrevConnect>>
    /\ UNCHANGED notNist

\* for (uint8_t i = 0; i < NIST_SERVER_RETRYS; i++); after the loop: return 0
NistForTest ==
    /\ npc = "for"
    /\ IF ni < NIST_SERVER_RETRYS
       THEN npc' = "gapwait" /\ UNCHANGED nreturned
       ELSE npc' = "idle" /\ nreturned' = <<"zero">>
    /\ UNCHANGED <<ni, nmillis, lastNISTrequest, connectionMade, nLastConnect, nPrevConnect,
                   nAttempts, nGotBytes, nInternet, ncalls>>
    /\ UNCHANGED notNist

\* the value the gap wait compares millis() with
NistGapBase == lastNISTrequest

\* while (millis() < _lastNISTrequest + 4000) { /* wait */ }
NistGapWait ==
    /\ npc = "gapwait"
    /\ IF nmillis < NistGapBase + NISTGapMillis
       THEN nmillis' = nmillis + MillisStep /\ UNCHANGED npc
       ELSE npc' = "connect" /\ UNCHANGED nmillis
    /\ UNCHANGED <<ni, lastNISTrequest, connectionMade, nLastConnect, nPrevConnect,
                   nAttempts, nGotBytes, nInternet, nreturned, ncalls>>
    /\ UNCHANGED notNist

\* connectionMade = gsmClient.connect(ip1, TIME_PROTOCOL_PORT); println('!');
\* when no connection was made the loop goes on with i++
NistConnect ==
    /\ npc = "connect"
    /\ nPrevConnect' = nLastConnect
    /\ nLastConnect' = nmillis
    /\ nAttempts' = nAttempts + 1
    /\ \E made \in BOOLEAN, d \in {0, MillisStep} :
        /\ connectionMade' = made
        /\ nmillis' = nmillis + d
        /\ IF made
           THEN npc' = "response" /\ UNCHANGED ni
           ELSE npc' = "for" /\ ni' = ni + 1
    /\ UNCHANGED <<lastNISTrequest, nGotBytes, nInternet, nreturned, ncalls>>
    /\ UNCHANGED notNist

\* the wait for 4 bytes: they arrive within 5 seconds and the parsed time is
\* returned, or the client drops or the 5 seconds pass, and the loop goes on
NistResponse ==
    /\ npc = "response"
    /\ \E got \in BOOLEAN, d \in {0, MillisStep, NISTResponseMillis} :
        /\ got => d < NISTResponseMillis
        /\ nmillis' = nmillis + d
        /\ IF got
           THEN /\ nGotBytes' = TRUE
                /\ nreturned' = <<"parsed">>
                /\ npc' = "idle"
                /\ UNCHANGED ni
           ELSE /\ npc' = "for"
                /\ ni' = ni + 1
                /\ UNCHANGED <<nGotBytes, nreturned>>
    /\ UNCHANGED <<lastNISTrequest, connectionMade, nLastConnect, nPrevConnect, nAttempts,
                   nInternet, ncalls>>
    /\ UNCHANGED notNist

InitNist ==
    /\ sensorList = <<>>
    /\ ValuesIdle
    /\ TimeIdle
    /\ K30Idle
    /\ AtmosIdle
    /\ FanoutIdle
    /\ SinkIdle
    /\ SetupIdle
    /\ UpdateIdle
    /\ ClockIdle
    /\ LoggerIdle
    /\ npc = "idle"
    /\ ni = 0
    /\ nmillis \in {0, NISTResponseMillis}
    /\ lastNISTrequest = 0
    /\ connectionMade = FALSE
    /\ nLastConnect = -1
    /\ nPrevConnect = -1
    /\ nAttempts = 0
    /\ nGotBytes = FALSE
    /\ nInternet = FALSE
    /\ nreturned = <<>>
    /\ ncalls = 0
    /\ XBeeIdle
    /\ WifiIdle

NextNist == NistCall \/ NistForTest \/ NistGapWait \/ NistConnect \/ NistResponse

SpecNist == InitNist /\ [][NextNist]_vars

(***************************************************************************)
(* DigiXBeeWifi::extraModemSetup: init, command mode, the configuration     *)
(* commands, the network connection, the AI polling loop, and the IP and    *)
(* DNS loops.  Every command's response is the environment's choice.        *)
(***************************************************************************)
\* for (start = millis(); millis() - start < 300000; loops++)
PollWindowMillis == 300000
\* status = gsmModem.readResponseInt(10000L)
PollTimeoutMillis == 10000
XBEE_SUCCESS_CNTS == 3
MDM_LP_IPMAX == 16
MDM_LP_DNSMAX == 11

\* the commands answered with success &= gsmModem.waitResponse() == 1 before
\* the network connection, in order
ConfigCommands == <<"PR", "D8", "D9", "IP", "SM", "SO">>

\* the AI statuses of the model: 0 (joined) and 0x23 (SSID not configured)
StatusSamples == {0, 35}

notXBee == <<sensorList, sensorValues, fanVars, setupVars, updateVars, clockVars, configVars,
             loggerVars, hwVars, sinkVars, timeVars, k30Vars, atmosVars, nistVars,
             wifiVars>>

\* bool success = true; success &= gsmModem.init();
XBeeInit ==
    /\ xpc = "idle"
    /\ \E ok \in BOOLEAN :
        /\ xsuccess' = ok
        /\ xEarlyFail' = IF ok THEN "none" ELSE "init"
    /\ xpc' = "commandMode"
    /\ UNCHANGED <<xstep, xmillis, xPollStart, regCount, apRegistered, xpolls, mdmLp, xreset,
                   xreturned>>
    /\ UNCHANGED notXBee

\* if (gsmModem.commandMode()) { ... } else { success = false; }
XBeeCommandMode ==
    /\ xpc = "commandMode"
    /\ \E entered \in BOOLEAN :
        IF entered
        THEN xpc' = "config" /\ xstep' = 1 /\ UNCHANGED xsuccess
        ELSE xpc' = "return" /\ xsuccess' = FALSE /\ UNCHANGED xstep
    /\ UNCHANGED <<xEarlyFail, xmillis, xPollStart, regCount, apRegistered, xpolls, mdmLp,
                   xreset, xreturned>>
    /\ UNCHANGED notXBee

\* sendAT(command); success &= gsmModem.waitResponse() == 1;
XBeeConfig ==
    /\ xpc = "config"
    /\ \E ok \in BOOLEAN :
        /\ xsuccess' = (xsuccess /\ ok)
        /\ xEarlyFail' = IF xEarlyFail = "none" /\ ~ok THEN ConfigCommands[xstep]
                          ELSE xEarlyFail
    /\ IF xstep = Len(ConfigCommands)
       THEN xpc' = "networkConnect" /\ UNCHANGED xstep
       ELSE xstep' = xstep + 1 /\ UNCHANGED xpc
    /\ UNCHANGED <<xmillis, xPollStart, regCount, apRegistered, xpolls, mdmLp, xreset,
                   xreturned>>
    /\ UNCHANGED notXBee

\* what success is after: success &= networkConnect(_ssid, _pwd);
\* if (!success) { success = true; }
AfterConnect(suc, ok) == IF ~(suc /\ ok) THEN TRUE ELSE (suc /\ ok)

\* the network connection, then TM and DL (success &= ... == 1 for each) and
\* writeChanges(); the polling loop starts: start = millis()
XBeeNetworkConnect ==
    /\ xpc = "networkConnect"
    /\ \E ok \in BOOLEAN, tm \in BOOLEAN, dl \in BOOLEAN :
        xsuccess' = ((AfterConnect(xsuccess, ok) /\ tm) /\ dl)
    /\ xmillis' = 0
    /\ regCount' = 0
    /\ apRegistered' = FALSE
    /\ xpc' = "poll"
    /\ UNCHANGED <<xstep, xEarlyFail, xPollStart, xpolls, mdmLp, xreset, xreturned>>
    /\ UNCHANGED notXBee

\* if (++reg_count > XBEE_SUCCESS_CNTS)
RegisteredAtCount(count) == count >= XBEE_SUCCESS_CNTS
Registered(count) == count > XBEE_SUCCESS_CNTS

\* One pass of the polling loop: the test millis() - start < 300000, the AI
\* poll (answered at once or after the 10 seconds of readResponseInt), the
\* count, and delay(1000) unless the loop breaks.
XBeePoll ==
    /\ xpc = "poll"
    /\ IF xmillis < PollWindowMillis
       THEN \E status \in StatusSamples, d \in {0, PollTimeoutMillis} :
                /\ xPollStart' = xmillis
                /\ xpolls' = IF Len(xpolls) < XBEE_SUCCESS_CNTS + 1
                              THEN Append(xpolls, status)
                              ELSE Append(Tail(xpolls), status)
                /\ IF status = 0
                   THEN /\ regCount' = regCount + 1
                        /\ IF Registered(regCount + 1)
                           THEN /\ apRegistered' = TRUE
                                /\ xmillis' = xmillis + d
                                /\ xpc' = "afterPoll"
                           ELSE /\ xmillis' = (xmillis + d) + MillisStep
                                /\ UNCHANGED <<apRegistered, xpc>>
                   ELSE /\ regCount' = 0
                        /\ xmillis' = (xmillis + d) + MillisStep
                        /\ UNCHANGED <<apRegistered, xpc>>
       ELSE /\ xpc' = "afterPoll"
            /\ UNCHANGED <<xmillis, xPollStart, xpolls, regCount, apRegistered>>
    /\ UNCHANGED <<xsuccess, xstep, xEarlyFail, mdmLp, xreset, xreturned>>
    /\ UNCHANGED notXBee

\* if (apRegistered) { the IP loop ... } else { modemHardReset();
\* success = false; }
XBeeAfterPoll ==
    /\ xpc = "afterPoll"
    /\ IF apRegistered
       THEN /\ xpc' = "ip"
            /\ mdmLp' = 1
            /\ UNCHANGED <<xsuccess, xreset>>
       ELSE /\ xreset' = TRUE
            /\ xsuccess' = FALSE
            /\ xpc' = "return"
            /\ UNCHANGED mdmLp
    /\ UNCHANGED <<xstep, xEarlyFail, xmillis, xPollStart, regCount, apRegistered, xpolls,
                   xreturned>>
    /\ UNCHANGED notXBee

\* for (mdm_lp = 1; mdm_lp <= MDM_LP_IPMAX; mdm_lp++): MY until an address
\* is reported; if (!AllocatedIpSuccess) success = false
XBeeGetIP ==
    /\ xpc = "ip"
    /\ IF mdmLp <= MDM_LP_IPMAX
       THEN \E allocated \in BOOLEAN :
                IF allocated
                THEN xpc' = "dns" /\ mdmLp' = 1 /\ UNCHANGED xsuccess
                ELSE mdmLp' = mdmLp + 1 /\ UNCHANGED <<xpc, xsuccess>>
       ELSE /\ xsuccess' = FALSE
            /\ xpc' = "return"
            /\ UNCHANGED mdmLp
    /\ UNCHANGED <<xstep, xEarlyFail, xmillis, xPollStart, regCount, apRegistered, xpolls,
                   xreset, xreturned>>
    /\ UNCHANGED notXBee

\* for (mdm_lp = 1; mdm_lp <= MDM_LP_DNSMAX; mdm_lp++): NS until an address
\* is reported; if (false == DnsIpSuccess) success = false
XBeeGetDNS ==
    /\ xpc = "dns"
    /\ IF mdmLp <= MDM_LP_DNSMAX
       THEN \E allocated \in BOOLEAN :
                IF allocated
                THEN xpc' = "return" /\ UNCHANGED <<mdmLp, xsuccess>>
                ELSE mdmLp' = mdmLp + 1 /\ UNCHANGED <<xpc, xsuccess>>
       ELSE /\ xsuccess' = FALSE
            /\ xpc' = "return"
            /\ UNCHANGED mdmLp
    /\ UNCHANGED <<xstep, xEarlyFail, xmillis, xPollStart, regCount, apRegistered, xpolls,
                   xreset, xreturned>>
    /\ UNCHANGED notXBee

\* return success;
XBeeReturn ==
    /\ xpc = "return"
    /\ xreturned' = <<xsuccess>>
    /\ xpc' = "returned"
    /\ UNCHANGED <<xsuccess, xstep, xEarlyFail, xmillis, xPollStart, regCount, apRegistered,
                   xpolls, mdmLp, xreset>>
    /\ UNCHANGED notXBee

InitXBee ==
    /\ sensorList = <<>>
    /\ ValuesIdle
    /\ TimeIdle
    /\ K30Idle
    /\ AtmosIdle
    /\ NistIdle
    /\ XBeeIdle
    /\ WifiIdle
    /\ FanoutIdle
    /\ SinkIdle
    /\ SetupIdle
    /\ UpdateIdle
    /\ ClockIdle
    /\ LoggerIdle

NextXBee ==
    \/ XBeeInit
    \/ XBeeCommandMode
    \/ XBeeConfig
    \/ XBeeNetworkConnect
    \/ XBeePoll
    \/ XBeeAfterPoll
    \/ XBeeGetIP
    \/ XBeeGetDNS
    \/ XBeeReturn

SpecXBee == InitXBee /\ [][NextXBee]_vars

\* every step is the processor's own: it keeps executing
SpecXBeeFair == SpecXBee /\ WF_vars(NextXBee)

(***************************************************************************)
(* DigiXBeeWifi::setWiFiId and setWiFiPwd.  A string is its length; a      *)
(* buffer is the number of chars allocated for it.                          *)
(***************************************************************************)
WIFI_SSID_MAX_sz == 32
WIFI_PWD_MAX_sz == 63

\* calls in one run of the model
MaxWifiCalls == 3

\* the lengths of the strings passed in
LengthSamples == {0, 8, 32, 33, 34, 40, 63, 64, 65, 70, 300}

\* uint8_t newSsid_sz = strlen(newSsid)
Uint8(x) == x % 256

\* the size used for the allocation: if (sz > MAX) { ...; sz = MAX; }
AllocSize(len, maxSz) == IF Uint8(len) > maxSz THEN maxSz ELSE Uint8(len)

\* the length of the caller's string after the size check: the check writes
\* WiFiId2[newSsid_sz] = 0, at the length it measured, not at the maximum
LengthAfterCheck(len, maxSz) ==
    IF Uint8(len) > maxSz /\ Uint8(len) < len THEN Uint8(len) ELSE len

notWifi == <<sensorList, sensorValues, fanVars, setupVars, updateVars, clockVars, configVars,
             loggerVars, hwVars, sinkVars, timeVars, k30Vars, atmosVars, nistVars, xbeeVars>>

\* The body shared by the two setters, for the buffer f with maximum maxSz:
\* the pointer is set to the caller's string; with copyId the size check,
\* the allocation when the buffer is NULL (new may fail), and
\* strcpy(buffer, string), which writes the string's length + 1 chars.
\* A strcpy past the end of the buffer is undefined: the program goes on or
\* crashes.
SetWiFi(f, maxSz) ==
    /\ wcalls < MaxWifiCalls
    /\ wcalls' = wcalls + 1
    /\ \E len \in LengthSamples, copyId \in BOOLEAN, allocated \in BOOLEAN :
        IF ~copyId
        THEN /\ wptr' = [wptr EXCEPT ![f] = "caller"]
             /\ UNCHANGED <<wbufCap, wlast, wpc>>
        ELSE LET cap == IF wbufCap[f] = 0
                        THEN (IF allocated THEN AllocSize(len, maxSz) + 2 ELSE 0)
                        ELSE wbufCap[f]
                 written == LengthAfterCheck(len, maxSz) + 1
             IN /\ wbufCap' = [wbufCap EXCEPT ![f] = cap]
                /\ IF cap = 0
                   THEN /\ wptr' = [wptr EXCEPT ![f] = "caller"]
                        /\ UNCHANGED <<wlast, wpc>>
                   ELSE /\ wptr' = [wptr EXCEPT ![f] = "buffer"]
                        /\ wlast' = [field |-> f, written |-> written, capacity |-> cap]
                        /\ IF written > cap
                           THEN wpc' \in {"ready", "crashed"}
                           ELSE UNCHANGED wpc
    /\ UNCHANGED notWifi

setWiFiId ==
    /\ wpc = "ready"
    /\ SetWiFi("ssid", WIFI_SSID_MAX_sz)

setWiFiPwd ==
    /\ wpc = "ready"
    /\ SetWiFi("pwd", WIFI_PWD_MAX_sz)

InitWifi ==
    /\ sensorList = <<>>
    /\ ValuesIdle
    /\ TimeIdle
    /\ K30Idle
    /\ AtmosIdle
    /\ NistIdle
    /\ XBeeIdle
    /\ WifiIdle
    /\ FanoutIdle
    /\ SinkIdle
    /\ SetupIdle
    /\ UpdateIdle
    /\ ClockIdle
    /\ LoggerIdle

NextWifi == setWiFiId \/ setWiFiPwd

SpecWifi == InitWifi /\ [][NextWifi]_vars

(***************************************************************************)
(* SpecFile: setupLogFile and log() called in any order, setupLogFile first, *)
(* on a card that is empty or holds the file an earlier run of the same      *)
(* logger left for today; the contents of every file are followed.  The RTC  *)
(* starts one second before midnight UTC, which is also a multiple of five   *)
(* minutes in both time zones.                                               *)
(***************************************************************************)
FileSensorLists ==
    { <<>>,
      << [name |-> "SensorA", loc |-> "pin3"] >>,
      << [name |-> "SensorA", loc |-> "pin3"], [name |-> "SensorB", loc |-> "pin5"] >>,
      << [name |-> "SensorA", loc |-> "pin3"], [name |-> "SensorA", loc |-> "pin3"] >> }
FileIntervals   == {1, 5}

\* what an earlier run left in today's file: the header, or the header and a
\* record of an hour ago
EarlierCards(list, now) ==
    LET name == FileNameFor(LoggerID, now)
        hdr  == HeaderLines(LoggerID, SamplingFeature, list)
        rec  == GenerateSensorDataCSV(now - 3600, [k \in 1..Len(list) |-> NoReading])
    IN  { EmptyCard,
          AppendLines(EmptyCard, name, hdr),
          AppendLines(EmptyCard, name, Append(hdr, rec)) }

InitFile ==
    /\ sensorList \in FileSensorLists
    /\ ValuesIdle
    /\ TimeIdle
    /\ K30Idle
    /\ DriversIdle
    /\ FanoutIdle
    /\ SetupIdle
    /\ UpdateIdle
    /\ rtcEpoch = EpochBase - 1
    /\ elapsed = 0
    /\ timeZone \in TimeZones
    /\ currentepochtime = 0
    /\ currentTime = -1
    /\ interruptPin = -1
    /\ periodicity = "EveryMinute"
    /\ loggingIntervalMinutes \in FileIntervals
    /\ sleep = FALSE
    /\ timerPeriod = 0
    /\ pc = "setup"
    /\ spos = 0
    /\ setupOps = <<>>
    /\ ops = <<>>
    /\ testedEpoch = -1
    /\ ticks = 0
    /\ sensorsAwake = TRUE
    /\ alarmEnabled = FALSE
    /\ rtcFlag = FALSE
    /\ intPending = FALSE
    /\ intEnabled = TRUE
    /\ seiShadow = FALSE
    /\ sleepEnableBit = FALSE
    /\ adcEnabled = TRUE
    /\ fileName = NoFileName
    /\ appended = <<>>
    /\ created = FALSE
    /\ sdOK = TRUE
    /\ files \in EarlierCards(sensorList, GetNow(rtcEpoch, timeZone))

NextFile == FileSetupLogFile \/ FileLog \/ RTCSecond

SpecFile == InitFile /\ [][NextFile]_vars

(***************************************************************************)
(* Spec: setup() and then log() called over and over from the main loop,    *)
(* while the RTC runs and its alarm interrupts the processor.               *)
(***************************************************************************)
Init ==
    /\ sensorList = << [name |-> "SensorA", loc |-> "pin3"],
                       [name |-> "SensorB", loc |-> "pin5"] >>
    /\ ValuesIdle
    /\ TimeIdle
    /\ K30Idle
    /\ DriversIdle
    /\ FanoutIdle
    /\ fileName = NoFileName
    /\ appended = <<>>
    /\ files = EmptyCard
    /\ created = FALSE
    /\ sdOK \in BOOLEAN
    /\ okAt \in [1..Len(sensorList) -> {1, SetupTriesLimit + 1}]
    /\ SetupPending
    /\ UpdateIdle
    /\ ClockInit
    /\ LoggerInit

Next ==
    \/ Setup
    \/ SetupForTest
    \/ SetupAttempt
    \/ SetupWhileExit
    \/ SetupAccumulate
    \/ SetupLogFile
    \/ SetupTimer
    \/ SetupSleep
    \/ LogTimerUpdate
    \/ LogCheck
    \/ LogUpdate
    \/ LogToSD
    \/ LogSleepTest
    \/ SleepStep
    \/ RTCSecond
    \/ WakeISR

Spec == Init /\ [][Next]_vars

(***************************************************************************)
(* Properties                                                               *)
(***************************************************************************)
\* handle i is the first of a maximal run of consecutive handles with
\* identical (name, location)
IsRunStart(list, i) == i = 1 \/ list[i] # list[i - 1]

\* the current log() call has performed op / how often
Did(op) == \E k \in 1..Len(ops) : ops[k] = op
CountOp(op) == Cardinality({k \in 1..Len(ops) : ops[k] = op})

\* a log() call has run and returned to the main loop
LogReturned == pc = "loop" /\ ops # <<>>

\* C1: a log() call performs a logging cycle (updateAllSensors, then one
\* record appended) if and only if the cached epoch its alignment test read
\* is a multiple of loggingIntervalMinutes*60 seconds; at any other epoch
\* nothing is updated and nothing is appended.
C1_CycleIffAligned ==
    pc = "sleeptest" =>
        LET aligned == testedEpoch % (loggingIntervalMinutes * 60) = 0 IN
        /\ aligned => Did("updateAllSensors") /\ CountOp("logToSD") = 1
        /\ ~aligned => ~Did("updateAllSensors") /\ ~Did("logToSD")

\* C2: the retry budget of setupSensors is per sensor: when setupSensors
\* returns, every first handle of a run has had setup() invoked, and a handle
\* whose setup() first succeeds on attempt k <= 5 has been attempted exactly
\* k times and was folded into the result as a success.
C2_RetryBudgetPerSensor ==
    spc = "done" =>
        \A i \in 1..Len(sensorList) :
            IsRunStart(sensorList, i) =>
                /\ Len(setupResults[i]) >= 1
                /\ okAt[i] <= SetupTriesLimit =>
                    /\ Len(setupResults[i]) = okAt[i]
                    /\ setupResults[i][okAt[i]] = TRUE
                    /\ anded[i] # <<>>
                    /\ anded[i][1] = TRUE

\* C3: in one call of updateAllSensors, update() is invoked exactly once on
\* the first handle of every maximal run of identical consecutive handles and
\* never on another handle; identical handles that are not adjacent are both
\* updated.
C3_UpdateOncePerRun ==
    \A i \in DOMAIN updateResults :
        /\ Len(updateResults[i]) <= 1
        /\ ~IsRunStart(sensorList, i) => updateResults[i] = <<>>
        /\ (upc = "done" /\ IsRunStart(sensorList, i)) => Len(updateResults[i]) = 1

\* a finished call on a list A, B, A: all three handles were updated
C3_Witness ==
    /\ upc = "done"
    /\ Len(sensorList) = 3
    /\ sensorList[1] = sensorList[3]
    /\ sensorList[1] # sensorList[2]
    /\ \A i \in 1..3 : Len(updateResults[i]) = 1

\* C4: setupSensors never invokes setup() on a later member of a run of
\* identical consecutive handles, whatever the run's length; the outer loop
\* only ever stands on the first handle of a run, and when it returns it has
\* stood on the first handle of every run (the handle after a run included).
C4_SetupSkipsLaterRunMembers ==
    /\ \A i \in DOMAIN setupResults :
        ~IsRunStart(sensorList, i) => setupResults[i] = <<>> /\ anded[i] = <<>>
    /\ spc \in {"while", "after"} => IsRunStart(sensorList, si)
    /\ spc = "done" =>
        \A i \in 1..Len(sensorList) : IsRunStart(sensorList, i) => anded[i] # <<>>

\* a finished call on a list A, A, B: A's duplicate was never set up, B was
C4_Witness ==
    /\ spc = "done"
    /\ Len(sensorList) = 3
    /\ sensorList[1] = sensorList[2]
    /\ sensorList[2] # sensorList[3]
    /\ setupResults[1] # <<>>
    /\ setupResults[2] = <<>>
    /\ setupResults[3] # <<>>

\* C5: setupSensors returns true if and only if every first handle of a run
\* had an attempt that returned true, and the value folded into the result
\* for a handle always comes from a setup() call on that very handle.
C5_ResultIsAndOfOwnResults ==
    spc = "done" =>
        /\ success <=>
            \A i \in 1..Len(sensorList) :
                IsRunStart(sensorList, i) =>
                    \E k \in 1..Len(setupResults[i]) : setupResults[i][k]
        /\ \A i \in 1..Len(sensorList) :
            IsRunStart(sensorList, i) => anded[i] # <<>> /\ anded[i][2] = i

\* C6: setup() is invoked at most 5 times on any one handle, and never again
\* on a handle after one of its attempts returned true (only the last result
\* of a handle can be true).
C6_AtMostFiveAndStopOnSuccess ==
    \A i \in DOMAIN setupResults :
        /\ Len(setupResults[i]) <= 5
        /\ \A k \in 1..(Len(setupResults[i]) - 1) : setupResults[i][k] = FALSE

\* a handle that failed four times and succeeded on its fifth attempt
C6_Witness ==
    \E i \in DOMAIN setupResults :
        /\ Len(setupResults[i]) = 5
        /\ setupResults[i][5] = TRUE

\* the operations of the logging cycle inside log()
CycleOps == {"timer.update", "led on", "updateAllSensors", "logToSD", "led off"}

\* C7: with the sleep flag set, a log() call invokes systemSleep exactly once,
\* as its last statement, whether or not it performed a logging cycle: never
\* before or during the cycle, and never twice.
C7_SleepAtEndOfEveryTick ==
    /\ CountOp("systemSleep") <= 1
    /\ \A k \in 1..Len(ops) :
        ops[k] = "systemSleep" =>
            \A m \in 1..Len(ops) : ops[m] \in CycleOps => m < k
    /\ (sleep /\ LogReturned) => CountOp("systemSleep") = 1
    /\ pc \in {"sleep", "halted"} => sleep /\ CountOp("systemSleep") = 1

\* a log() call that logged a record, slept, woke and returned
C7_Witness ==
    /\ sleep
    /\ LogReturned
    /\ Did("logToSD")
    /\ Did("sensorsWake")

\* C9 (the order the specification gives): sensors sleep, serial output
\* flushed, RTC flag cleared, ADC disabled, interrupts disabled, sleep mode
\* armed, interrupts re-enabled, core halted; then sleep mode disarmed, ADC
\* re-enabled, sensors woken.
C9_ExpectedOrder ==
    << "sensorsSleep", "Serial.flush", "Serial1.flush", "rtc.clearINTStatus",
       "ADC off", "noInterrupts", "sleep_enable", "interrupts", "sleep_cpu",
       "sleep_disable", "ADC on", "sensorsWake" >>

\* the steps systemSleep has performed in the current log() call
SleepOps ==
    IF Did("systemSleep")
    THEN LET k0 == CHOOSE k \in 1..Len(ops) : ops[k] = "systemSleep"
         IN  SubSeq(ops, k0 + 1, Len(ops))
    ELSE <<>>

\* C8: set up with interruptPin = -1, the sleep flag stays unset and no log()
\* call ever invokes systemSleep: no sensor is put to sleep, the RTC flag is
\* not cleared, the core is never halted.
C8_NoSleepWithoutInterruptPin ==
    interruptPin = -1 =>
        /\ ~sleep
        /\ pc \notin {"sleep", "halted"}
        /\ ~Did("systemSleep")
        /\ \A k \in 1..Len(ops) :
            \A m \in 1..Len(C9_ExpectedOrder) : ops[k] # C9_ExpectedOrder[m]
        /\ sensorsAwake /\ adcEnabled /\ ~sleepEnableBit

\* without an interrupt pin, MaxTicks log() calls were made, the last one logged
C8_Witness ==
    /\ interruptPin = -1
    /\ ticks = MaxTicks
    /\ LogReturned
    /\ Did("logToSD")

\* C9: every execution of systemSleep performs the steps of C9_ExpectedOrder
\* in that order, none skipped or repeated: the core is halted only after the
\* first nine, with sensors asleep, ADC off, sleep mode armed and interrupts
\* enabled, and the call returns only after all of them.
C9_SleepStepsInOrder ==
    /\ Len(SleepOps) <= Len(C9_ExpectedOrder)
    /\ SleepOps = SubSeq(C9_ExpectedOrder, 1, Len(SleepOps))
    /\ pc = "halted" =>
        /\ Len(SleepOps) = 9
        /\ ~sensorsAwake /\ ~adcEnabled /\ sleepEnableBit /\ intEnabled
    /\ (LogReturned /\ Did("systemSleep")) =>
        /\ SleepOps = C9_ExpectedOrder
        /\ sensorsAwake /\ adcEnabled /\ ~sleepEnableBit

\* a systemSleep that halted, was woken and returned
C9_Witness ==
    /\ LogReturned
    /\ SleepOps = C9_ExpectedOrder

\* C10: no wake is missed: the core is never left halted with the RTC's
\* interrupt flag latched and no interrupt pending, the state in which the
\* RTC sends no further interrupt and nothing can resume the core.
C10_NoMissedWake == ~(pc = "halted" /\ rtcFlag /\ ~intPending)

\* C12: for every non-empty sensor list of n handles the line returned by
\* generateSensorDataCSV has exactly n + 1 fields separated by ", ": the
\* cached timestamp first, then the current value of every handle, duplicates
\* included, in list order, and no separator after the last value.
C12_CSVFieldPerHandle ==
    (upc = "generated" /\ Len(sensorList) >= 1) =>
        LET n == Len(sensorList) IN
        /\ Len(csv) = 2 * n + 1
        /\ csv[1] = TimestampField(currentTime)
        /\ \A i \in 1..n :
            /\ csv[2 * i] = Sep
            /\ csv[2 * i + 1] = ValueField(sensorValues[i])

\* a line generated for three handles of which the first two are identical
\* but hold different values
C12_Witness ==
    /\ upc = "generated"
    /\ Len(sensorList) = 3
    /\ sensorList[1] = sensorList[2]
    /\ sensorValues[1] # sensorValues[2]
    /\ Len(csv) = 7

\* the local time at which the current call of updateAllSensors was entered
EntryTime == GetNow(rtcEpoch - elapsed, timeZone)

\* C13: updateAllSensors refreshes the cached timestamp once, at entry and
\* before any update(); the timestamp then stays the entry time throughout
\* the call and generateSensorDataCSV, however long the updates take, and the
\* record carries it.
C13_TimestampIsEntryTime ==
    /\ upc = "entry" =>
        /\ currentTime = -1
        /\ \A i \in DOMAIN updateResults : updateResults[i] = <<>>
    /\ upc # "entry" => currentTime = EntryTime
    /\ upc = "generated" => csv[1] = TimestampField(EntryTime)

\* a record generated two or more seconds after the call was entered
C13_Witness ==
    /\ upc = "generated"
    /\ elapsed >= 2
    /\ csv[1] # TimestampField(GetNow(rtcEpoch, timeZone))

\* every result of an update() invoked so far in this call was true
AllUpdatesTrue ==
    \A i \in DOMAIN updateResults :
        \A k \in 1..Len(updateResults[i]) : updateResults[i][k]

\* C14: a failing update() does not abort updateAllSensors: the first handle
\* of every run the loop has passed has been updated, whatever the earlier
\* results, and the value returned is true exactly when every update()
\* invoked returned true.
C14_FailureDoesNotAbort ==
    /\ \A i \in DOMAIN updateResults :
        (IsRunStart(sensorList, i) /\ (i < ui \/ upc \in {"done", "generated"}))
            => Len(updateResults[i]) = 1
    /\ upc \in {"for", "body", "done", "generated"} => (usuccess <=> AllUpdatesTrue)

\* a finished call whose first update() failed and whose later ones succeeded
C14_Witness ==
    /\ upc = "done"
    /\ Len(sensorList) = 3
    /\ updateResults = << <<FALSE>>, <<TRUE>>, <<TRUE>> >>
    /\ ~usuccess

\* the sleep() / wake() calls made so far, in order
CallsOf(op) == SelectSeq(fcalls, LAMBDA c : c.op = op)

\* the calls of one fan-out are calls on handles 1, 2, 3, ... in that order:
\* each handle once, none skipped, none repeated
InListOrder(calls) ==
    /\ Len(calls) <= Len(sensorList)
    /\ \A k \in 1..Len(calls) : calls[k].i = k

AllTrue(calls) == \A k \in 1..Len(calls) : calls[k].r

\* C15: sensorsSleep and sensorsWake invoke sleep() and wake() exactly once
\* on every handle of the list, duplicates included, in list order, without
\* stopping at a failure and without retrying; each returns true exactly when
\* every call it made returned true.
C15_FanoutOncePerHandle ==
    /\ InListOrder(CallsOf("sleep"))
    /\ InListOrder(CallsOf("wake"))
    /\ sleepReturned # <<>> =>
        /\ Len(CallsOf("sleep")) = Len(sensorList)
        /\ sleepReturned[1] <=> AllTrue(CallsOf("sleep"))
    /\ wakeReturned # <<>> =>
        /\ Len(CallsOf("wake")) = Len(sensorList)
        /\ wakeReturned[1] <=> AllTrue(CallsOf("wake"))

\* both fan-outs have returned on a list whose first two handles are
\* identical; the first sleep() failed, every later call succeeded
C15_Witness ==
    /\ fpc = "done"
    /\ Len(sensorList) = 3
    /\ sensorList[1] = sensorList[2]
    /\ Len(fcalls) = 6
    /\ ~fcalls[1].r
    /\ \A k \in 2..6 : fcalls[k].r
    /\ sleepReturned = <<FALSE>>
    /\ wakeReturned = <<TRUE>>

\* the date of the timestamp a record line starts with
RecordDate(line) == DateOf(line[1].ts)

\* C16: the log file name is computed once, in setupLogFile, as the logger ID
\* and the date the clock shows at that moment; no later step of log(),
\* logToSD, updateAllSensors or systemSleep changes it, and every record is
\* appended to the file of that name, whatever the date has become.
C16_FileNameFixedAtSetup ==
    [][ /\ pc # "setupSensors" => fileName' = fileName
        /\ (pc = "setupSensors" /\ pc' # pc) =>
              fileName' = [id |-> LoggerID, date |-> DateOf(GetNow(rtcEpoch, timeZone))]
        /\ \A k \in 1..Len(appended') : appended'[k].name = fileName'
      ]_vars

\* a record stamped with a later date than the date in the name of the file
\* it was appended to, which is still the file named at setup
C16_Witness ==
    /\ appended # <<>>
    /\ appended[1].name = fileName
    /\ RecordDate(appended[1].line) > fileName.date

\* C17: the log file name rolls over daily: every record is appended to the
\* file whose name carries the date of the record's own timestamp.
C17_FileNameRollsDaily ==
    \A k \in 1..Len(appended) : appended[k].name.date = RecordDate(appended[k].line)

\* every setup() fails on every attempt setupSensors makes
AllSetupsFail == \A i \in DOMAIN okAt : okAt[i] > SetupTriesLimit

\* setup() has returned
SetupReturned == pc \in {"loop", "check", "update", "append", "sleeptest", "sleep", "halted"}

\* C20: if every sensor's setup() fails on every attempt, setupSensors
\* returns false, and setup() still completes: the log file is named, the
\* timer is armed, sleep is armed exactly when an interrupt pin is given; and
\* a later log() call at an epoch aligned with the logging interval still
\* updates the sensors and appends a record.
C20_SetupFailureDoesNotBlock ==
    AllSetupsFail =>
        /\ spc = "done" => ~success
        /\ SetupReturned =>
            /\ spc = "done"
            /\ fileName # NoFileName
            /\ fileName.id = LoggerID
            /\ timerPeriod = TimerPeriod(periodicity)
            /\ sleep <=> interruptPin # -1
            /\ alarmEnabled <=> interruptPin # -1
        /\ (pc = "sleeptest" /\ testedEpoch % (loggingIntervalMinutes * 60) = 0) =>
            /\ Did("updateAllSensors")
            /\ Len(appended) = 1

\* after a setup in which every sensor failed, a log() call at an aligned
\* epoch has appended a record and returned
C20_Witness ==
    /\ AllSetupsFail
    /\ ~success
    /\ LogReturned
    /\ testedEpoch % (loggingIntervalMinutes * 60) = 0
    /\ Did("updateAllSensors")
    /\ Len(appended) = 1

\* a line of a file is a record: it starts with a timestamp
IsRecord(line) == "ts" \in DOMAIN line[1]

\* the header of the files of this logger
ExpectedHeader == HeaderLines(LoggerID, SamplingFeature, sensorList)

\* C11: the header is written only when the file did not exist when
\* setupLogFile opened it: whatever setupLogFile calls and appends have been
\* made, every file of the logger holds the header lines exactly once, as its
\* first lines, and every other line is a record.
C11_HeaderExactlyOnce ==
    \A n \in DOMAIN files :
        LET f == files[n] IN
        /\ Len(f) >= Len(ExpectedHeader)
        /\ SubSeq(f, 1, Len(ExpectedHeader)) = ExpectedHeader
        /\ \A k \in (Len(ExpectedHeader) + 1)..Len(f) : IsRecord(f[k])

\* setupLogFile has just reopened a file that already holds the header and
\* two records, and left it as it was
C11_Witness ==
    /\ ops = <<"setupLogFile">>
    /\ ~created
    /\ Len(files[fileName]) = Len(ExpectedHeader) + 2
    /\ C11_HeaderExactlyOnce

\* C18: when setupLogFile creates a new file it writes exactly three header
\* lines: the logger ID; "Sampling Feature UUID: " and the sampling feature;
\* and a column line that starts with the quoted field "Timestamp" followed,
\* for each handle in list order, by one quoted field built from the sensor
\* name, variable name, variable unit and the i-th UUID, the fields separated
\* by ", " and no separator after the last field.
C18_ThreeHeaderLines ==
    (ops = <<"setupLogFile">> /\ created) =>
        LET f == files[fileName]
            n == Len(sensorList)
        IN  /\ Len(f) = 3
            /\ f[1] = <<Text(LoggerID)>>
            /\ f[2] = <<Text("Sampling Feature UUID: "), Text(SamplingFeature)>>
            /\ f[3][1] = Quoted(<<"Timestamp">>)
            /\ Len(f[3]) = 2 * n + 1
            /\ \A i \in 1..n :
                /\ f[3][2 * i] = Sep
                /\ f[3][2 * i + 1] = ColumnField(sensorList, i)
            /\ f[3][Len(f[3])] # Sep

\* the scenario of C19: two distinct sensors, a five-minute interval, and a
\* log() call that has just returned and whose alignment test read an epoch
\* divisible by 300
TickAtFiveMinutes ==
    /\ Len(sensorList) = 2
    /\ sensorList[1] # sensorList[2]
    /\ loggingIntervalMinutes = 5
    /\ ops # <<>>
    /\ ops[1] = "timer.update"
    /\ testedEpoch % (5 * 60) = 0

\* the one line '{timestamp}, {valueA}, {valueB}' went to the end of the log file
OneLineAppended ==
    /\ Len(appended) = 1
    /\ appended[1].name = fileName
    /\ appended[1].line = <<TimestampField(testedEpoch), Sep, ValueField(sensorValues[1]),
                           Sep, ValueField(sensorValues[2])>>
    /\ files[fileName][Len(files[fileName])] = appended[1].line

\* the lines of the log file that are not records
HeaderCount == Cardinality({k \in 1..Len(files[fileName]) : ~IsRecord(files[fileName][k])})

\* C19 as stated: one tick at an epoch divisible by 300 appends exactly one
\* line '{timestamp}, {valueA}, {valueB}', and if the file did not exist at
\* setup exactly two header lines precede it.
C19_TwoHeaderLines ==
    TickAtFiveMinutes =>
        /\ OneLineAppended
        /\ created => HeaderCount = 2

\* C19, amended: one tick at an epoch divisible by 300 appends exactly one
\* line '{timestamp}, {valueA}, {valueB}', and if the file did not exist at
\* setup exactly three header lines precede it.
C19_ThreeHeaderLines ==
    TickAtFiveMinutes =>
        /\ OneLineAppended
        /\ created =>
            /\ HeaderCount = 3
            /\ \A k \in 1..3 : ~IsRecord(files[fileName][k])

\* the first tick after setupLogFile created the file: three header lines
\* and the record
C19_Witness ==
    /\ TickAtFiveMinutes
    /\ created
    /\ Len(files[fileName]) = 4
    /\ sensorValues[1] # sensorValues[2]

\* C21: a storage device that fails to initialise is non-fatal: setupLogFile
\* still computes the file name and returns, setup() still arms the timer and
\* (with a pin) sleep, and every later log() call updates the sensors exactly
\* when its alignment test passes and runs the whole sleep sequence when sleep
\* is armed, as with working storage; only nothing reaches the card.
C21_StorageFailureNotFatal ==
    ~sdOK =>
        /\ SetupReturned =>
            /\ fileName # NoFileName
            /\ fileName.id = LoggerID
            /\ timerPeriod = TimerPeriod(periodicity)
            /\ sleep <=> interruptPin # -1
            /\ alarmEnabled <=> interruptPin # -1
        /\ pc = "sleeptest" =>
            (Did("updateAllSensors") <=> LogDue(testedEpoch, loggingIntervalMinutes))
        /\ (LogReturned /\ sleep) => SleepOps = C9_ExpectedOrder
        /\ Persisted = <<>>

\* with a card that did not initialise, a log() call has updated the sensors,
\* printed its record, slept, been woken and returned; nothing was persisted
C21_Witness ==
    /\ ~sdOK
    /\ LogReturned
    /\ Did("updateAllSensors")
    /\ Len(appended) = 1
    /\ SleepOps = C9_ExpectedOrder
    /\ Persisted = <<>>

\* setup() has armed the timer
TimerArmed == pc = "setupSleep" \/ SetupReturned

\* C24: setup() derives the timer's poll period from the alarm periodicity:
\* EverySecond gives 1 s, EveryMinute 15 s, EveryHour 300 s; the timer is
\* armed with that period whether or not an interrupt pin is supplied, and
\* not before setup() reaches setupTimer.
C24_TimerPeriodFromPeriodicity ==
    /\ TimerArmed =>
        /\ periodicity = "EverySecond" => timerPeriod = 1
        /\ periodicity = "EveryMinute" => timerPeriod = 15
        /\ periodicity = "EveryHour" => timerPeriod = 300
    /\ ~TimerArmed => timerPeriod = 0

\* set up without an interrupt pin and with an hourly alarm: the timer polls
\* every 300 s
C24_Witness ==
    /\ SetupReturned
    /\ interruptPin = -1
    /\ periodicity = "EveryHour"
    /\ timerPeriod = 300

\* the steps of setup(), in the order the specification gives
SetupOrder(pin) ==
    <<"rtc.begin", "setupSensors", "setupLogFile", "setupTimer">>
        \o (IF pin # -1 THEN <<"sleep = true", "setupSleep">> ELSE <<>>)

\* C25: setup() starts the clock, sets up the sensors, sets up the log file,
\* arms the timer and only then, if an interrupt pin was supplied, sets the
\* sleep flag and arms the RTC's alarm interrupt: the steps performed so far
\* are always a prefix of that order, each step's effect appears only after
\* the steps before it, and without a pin the sleep flag is never set and the
\* alarm never enabled.
C25_SetupOrder ==
    /\ Len(setupOps) <= Len(SetupOrder(interruptPin))
    /\ setupOps = SubSeq(SetupOrder(interruptPin), 1, Len(setupOps))
    /\ SetupReturned => setupOps = SetupOrder(interruptPin)
    /\ spc # "idle" => Len(setupOps) >= 2
    /\ fileName # NoFileName => (spc = "done" /\ Len(setupOps) >= 3)
    /\ timerPeriod # 0 => (fileName # NoFileName /\ Len(setupOps) >= 4)
    /\ (sleep \/ alarmEnabled) => (interruptPin # -1 /\ timerPeriod # 0 /\ Len(setupOps) = 6)
    /\ interruptPin = -1 => (~sleep /\ ~alarmEnabled)

\* setup() has returned with a pin: all six steps, sleep flag set, alarm armed
C25_Witness ==
    /\ SetupReturned
    /\ interruptPin # -1
    /\ setupOps = <<"rtc.begin", "setupSensors", "setupLogFile", "setupTimer",
                    "sleep = true", "setupSleep">>
    /\ sleep
    /\ alarmEnabled

\* the operations of a logging cycle, in the order the specification gives
C26_ExpectedCycle == <<"timer.update", "led on", "updateAllSensors", "logToSD", "led off">>

\* C26: a logging cycle runs to completion inside the log() call that
\* detected alignment, in the order indicator on, sensors updated, record
\* serialized and appended, indicator off: the record carries the timestamp
\* and values the update of this call left, and systemSleep is not entered
\* before the indicator is off.
C26_CycleOrder ==
    /\ Did("led on") =>
        LET n == IF Len(ops) < 5 THEN Len(ops) ELSE 5 IN
        SubSeq(ops, 1, n) = SubSeq(C26_ExpectedCycle, 1, n)
    /\ (Did("led on") /\ pc \in {"sleeptest", "sleep", "halted", "loop"}) =>
        /\ Len(ops) >= 5
        /\ Len(appended) = 1
    /\ appended # <<>> =>
        /\ Did("updateAllSensors")
        /\ appended[1].line = GenerateSensorDataCSV(currentTime, sensorValues)
        /\ currentTime >= testedEpoch
    /\ \A k \in 1..Len(ops) : ops[k] = "systemSleep" => (Did("led on") => k = 6)

\* a log() call that ran a cycle, then slept, was woken and returned
C26_Witness ==
    /\ LogReturned
    /\ Len(ops) >= 5
    /\ SubSeq(ops, 1, 5) = C26_ExpectedCycle
    /\ Did("systemSleep")
    /\ Len(appended) = 1

\* C28: the wake interrupt handler performs no work: the step that services
\* the interrupt, whether the core was halted or running, changes neither the
\* clock cache, the cached timestamp, the sleep flag, the file name nor any
\* sensor state, and performs no operation of a logging cycle.
C28_ISRDoesNothing ==
    [][ (intPending /\ ~intPending') =>
            /\ UNCHANGED <<currentepochtime, currentTime, sleep, fileName, timerPeriod>>
            /\ UNCHANGED <<sensorList, sensorValues, sensorsAwake, setupVars, updateVars, fanVars>>
            /\ UNCHANGED <<ops, appended, testedEpoch, ticks>>
            /\ pc' = IF pc = "halted" THEN "sleep" ELSE pc
      ]_vars

\* the handler has run and a log() call has returned since: the RTC's flag is
\* still latched and no interrupt is pending
C28_Witness ==
    /\ rtcFlag
    /\ ~intPending
    /\ LogReturned

(***************************************************************************)
(* The time-zone suffix and the cached epoch (SpecTime)                     *)
(***************************************************************************)
Formatted == dateTimeStr # NoDateTimeStr
TwoDigits(n) == <<DigitChars[(n \div 10) + 1], DigitChars[(n % 10) + 1]>>

\* C22: for every time-zone offset h in (-10, 24] the suffix that
\* getDateTime_ISO8601 appends is "Z" for h = 0, "+0h:00" for 0 < h < 10,
\* "+h:00" for 10 <= h <= 24 and "-0|h|:00" for -10 < h < 0.
C22_SuffixAboveMinusTen ==
    (Formatted /\ -10 < timeZone /\ timeZone <= 24) =>
        dateTimeStr.tz =
            IF timeZone = 0 THEN <<"Z">>
            ELSE IF 0 < timeZone /\ timeZone < 10
                 THEN <<"+", "0", DigitChars[timeZone + 1], ":", "0", "0">>
            ELSE IF 10 <= timeZone
                 THEN <<"+">> \o TwoDigits(timeZone) \o <<":", "0", "0">>
            ELSE <<"-", "0", DigitChars[(-timeZone) + 1], ":", "0", "0">>

C22_Witness ==
    /\ Formatted
    /\ timeZone = -5
    /\ dateTimeStr.tz = <<"-", "0", "5", ":", "0", "0">>

\* C23 as stated: for every time-zone offset h in [-24, -10] the suffix
\* omits the sign: the two-digit magnitude followed by ":00", with no
\* leading "-".
C23_SuffixOmitsSign ==
    (Formatted /\ -24 <= timeZone /\ timeZone <= -10) =>
        dateTimeStr.tz = TwoDigits(-timeZone) \o <<":", "0", "0">>

\* C23, amended: for every time-zone offset h in [-24, -10] the suffix is
\* "-", the two-digit magnitude and ":00": String(_timeZone) carries the
\* sign and that branch appends ":00" to it unchanged.
C23_SuffixKeepsSign ==
    (Formatted /\ -24 <= timeZone /\ timeZone <= -10) =>
        dateTimeStr.tz = <<"-">> \o TwoDigits(-timeZone) \o <<":", "0", "0">>

C23_Witness ==
    /\ Formatted
    /\ timeZone = -12
    /\ dateTimeStr.tz = <<"-", "1", "2", ":", "0", "0">>

\* C27: once get-current-time has been called, the cached epoch equals the
\* RTC epoch its most recent call read plus timeZone*3600: the offset is
\* applied once per fetch, never accumulated, and nothing else changes the
\* cached epoch.
C27_CachedEpochIsLastReadPlusOffset ==
    rtcRead # -1 => currentepochtime = rtcRead + timeZone * 3600

(***************************************************************************)
(* The K30 driver's busy-waits (SpecK30Fair)                                *)
(***************************************************************************)
\* C29: addSingleMeasurementResult terminates for every behaviour of the
\* serial stream, a sensor that never sends a byte included: every call
\* eventually returns.
C29_K30Terminates == <>(kpc = "returned")

(***************************************************************************)
(* Records per aligned epoch (SpecFile)                                     *)
(***************************************************************************)
\* the records of file name whose timestamp is the epoch t
RecordsAt(name, t) ==
    {i \in 1..Len(files[name]) : IsRecord(files[name][i]) /\ files[name][i][1].ts = t}

\* C30: for any one aligned epoch at most one record is appended to the log
\* file, however many times log() is invoked while the clock reads that
\* epoch.
C30_OneRecordPerAlignedEpoch ==
    \A name \in DOMAIN files :
        \A i \in 1..Len(files[name]) :
            LET line == files[name][i] IN
            (IsRecord(line) /\ line[1].ts % (loggingIntervalMinutes * 60) = 0)
                => Cardinality(RecordsAt(name, line[1].ts)) <= 1

(***************************************************************************)
(* The timestamp of a record and the reading the alignment test saw (Spec)  *)
(***************************************************************************)
\* C31: every record log() appends carries the timestamp of the clock
\* reading that passed the alignment test, even when the RTC advances
\* between the test and the clock read at the start of updateAllSensors.
C31_RecordStampedWithTestedEpoch ==
    \A k \in 1..Len(appended) : appended[k].line[1].ts = testedEpoch

(***************************************************************************)
(* Sleep and wake around the halt (Spec)                                    *)
(***************************************************************************)
\* the position of op in the steps of the current log() call (0: not there)
PosOf(op) == IF Did(op) THEN CHOOSE k \in 1..Len(ops) : ops[k] = op ELSE 0

\* C32: sleep and wake calls are balanced around every halt: a systemSleep
\* that has resumed and returned called sensorsSleep exactly once before the
\* halt and sensorsWake exactly once after it; and whenever log() is about
\* to update the sensors, or has just done so, the ADC is enabled, the
\* sleep-enable bit is clear and the sensors have been woken since they were
\* last put to sleep.
C32_SleepWakeBalanced ==
    /\ CountOp("sensorsSleep") <= 1
    /\ CountOp("sensorsWake") <= 1
    /\ Did("sensorsWake") => PosOf("sleep_cpu") < PosOf("sensorsWake")
    /\ Did("sleep_cpu") =>
            (PosOf("sensorsSleep") > 0 /\ PosOf("sensorsSleep") < PosOf("sleep_cpu"))
    /\ (LogReturned /\ Did("systemSleep")) =>
            (CountOp("sensorsSleep") = 1 /\ CountOp("sensorsWake") = 1)
    /\ pc \in {"update", "append"} => (adcEnabled /\ ~sleepEnableBit /\ sensorsAwake)

\* a log() call that updates the sensors after an earlier call slept and woke
C32_Witness ==
    /\ sleep
    /\ ticks >= 2
    /\ pc = "append"
    /\ Did("updateAllSensors")
    /\ sensorsAwake

(***************************************************************************)
(* Records and the column line of their file (SpecFile)                     *)
(***************************************************************************)
IsSep(token) == "sep" \in DOMAIN token

\* the fields of a line: its tokens other than the separators
FieldsOf(line) == SelectSeq(line, LAMBDA token : ~IsSep(token))

\* C33: every record line has as many fields as the column line of its
\* file: both hold the timestamp and one field per handle of the sensor
\* list, in list order, duplicates of a (name, location) included; the
\* record a log() call has just appended holds the handles' values in list
\* order.
C33_RecordFieldsMatchHeader ==
    LET n == Len(sensorList) IN
    /\ \A name \in DOMAIN files :
        LET f   == files[name]
            hdr == FieldsOf(f[3])
        IN  Len(f) >= 3 =>
            /\ Len(hdr) = n + 1
            /\ hdr[1] = Quoted(<<"Timestamp">>)
            /\ \A i \in 1..n : hdr[i + 1] = ColumnField(sensorList, i)
            /\ \A k \in 1..Len(f) :
                IsRecord(f[k]) =>
                    /\ Len(FieldsOf(f[k])) = Len(hdr)
                    /\ \A i \in 1..n : "val" \in DOMAIN FieldsOf(f[k])[i + 1]
    /\ \A a \in 1..Len(appended) :
        LET rec == FieldsOf(appended[a].line) IN
        /\ Len(rec) = n + 1
        /\ \A i \in 1..n : rec[i + 1] = ValueField(sensorValues[i])

\* a record appended for a list of two identical handles with different values
C33_Witness ==
    /\ Len(sensorList) = 2
    /\ sensorList[1] = sensorList[2]
    /\ Len(appended) = 1
    /\ sensorValues[1] # sensorValues[2]
    /\ Len(FieldsOf(appended[1].line)) = 3
    /\ Len(FieldsOf(files[fileName][3])) = 3

(***************************************************************************)
(* The K30 driver's attempts and its result (SpecK30)                       *)
(***************************************************************************)
\* C34: addSingleMeasurementResult keeps requesting readings until a value
\* greater than zero is obtained or 25 attempts have been made: it returns
\* true as soon as an attempt yields a valid value, and records -9999 and
\* returns false only after 25 failed attempts.
C34_FalseOnlyAfterAllAttempts ==
    kpc = "returned" =>
        \/ kreturned = <<TRUE>> /\ result > 0
        \/ /\ kreturned = <<FALSE>>
           /\ result = NoReading
           /\ rangeAttempts = RangeAttemptsLimit

\* C40: for every reply with data bytes high and low the driver records
\* (high*256 + low)*10 whenever that product is positive: a positive raw
\* reading never becomes -9999 or another number through the 16-bit result.
C40_PositiveReadingRecordedExactly ==
    LET raw == packet[1] * 256 + packet[2] IN
    (kpc = "returned" /\ raw > 0) =>
        verified[Len(verified)] = raw * valMultiplier

(***************************************************************************)
(* The variable slots of the Atmos drivers (SpecAtmos)                      *)
(***************************************************************************)
\* C39: every variable number getResults passes to
\* verifyAndAddMeasurementResult is less than the sensor's declared number
\* of variables, and the variable numbers of one sensor are pairwise
\* distinct.
C39_SlotsInsideValueArray ==
    /\ \A k \in 1..Len(acalls) : acalls[k].var < AtmosNumVariables(amodel)
    /\ \A k, m \in 1..Len(acalls) : k # m => acalls[k].var # acalls[m].var

(***************************************************************************)
(* The connections to the NIST server (SpecNist)                            *)
(***************************************************************************)
NistReturned == npc = "idle" /\ nreturned # <<>>

\* C35: within and across calls of getNISTTime two successive connection
\* attempts are never less than 4 seconds apart; a call makes at most 4
\* attempts, and returns 0 when there is no internet connection or no
\* attempt yields 4 response bytes.
C35_NistAttemptsFourSecondsApart ==
    /\ nPrevConnect # -1 => nLastConnect - nPrevConnect >= NISTGapMillis
    /\ nAttempts <= NIST_SERVER_RETRYS
    /\ (NistReturned /\ (~nInternet \/ ~nGotBytes)) => nreturned = <<"zero">>

\* the number of zero statuses that end a sequence of poll statuses
RECURSIVE TrailingZeros(_)
TrailingZeros(polls) ==
    IF polls = <<>> \/ polls[Len(polls)] # 0 THEN 0
    ELSE 1 + TrailingZeros(SubSeq(polls, 1, Len(polls) - 1))

\* C36: extraModemSetup sets apRegistered only when the four most recent AI
\* polls, each sent inside the 300-second window, all returned 0 (the count
\* is the number of zero statuses in a row, so a non-zero status resets
\* it); the polling loop always ends and the function returns; and when the
\* loop ends without registration the modem has been hard-reset and the
\* function returns false.
C36_RegisteredAfterFourZeroPolls ==
    /\ [](regCount = TrailingZeros(xpolls))
    /\ [](apRegistered =>
            /\ xpolls = <<0, 0, 0, 0>>
            /\ xPollStart >= 0
            /\ xPollStart < PollWindowMillis)
    /\ []((xpc \in {"return", "returned"} /\ xPollStart >= 0 /\ ~apRegistered) =>
            (xreset /\ ~xsuccess))
    /\ []((xpc = "returned" /\ xPollStart >= 0 /\ ~apRegistered) => xreturned = <<FALSE>>)
    /\ [](xreset => ~apRegistered)
    /\ <>(xpc = "returned")

\* the window ran out after a non-zero status had reset a count of three,
\* and the function has returned false after the hard reset
C36_Witness ==
    /\ xpc = "returned"
    /\ ~apRegistered
    /\ xreset
    /\ xreturned = <<FALSE>>
    /\ xmillis >= PollWindowMillis
    /\ xpolls = <<0, 0, 0, 35>>

\* C37: extraModemSetup returns true only if init and every configuration
\* command before the network connection (PR, D8, D9, IP, SM, SO) succeeded.
C37_TrueOnlyIfEveryStepSucceeded ==
    xreturned = <<TRUE>> => xEarlyFail = "none"

\* C38: with copyId = true the strcpy into _ssid_buf or _pwd_buf never
\* writes more chars than were allocated for that buffer.
C38_CopyWithinCapacity ==
    wlast.written <= wlast.capacity
====
